---- MODULE Spec2Model ----
(***************************************************************************)
(* Nine Realities netcode: the reliable-delivery packet protocol           *)
(* (NetworkProtocol), the client prediction / rollback engine              *)
(* (ClientPrediction), the clock synchronisation (TimeSync) and the        *)
(* NetcodeVisualizer component, as state machines whose actions are the    *)
(* methods and callbacks of the code.                                      *)
(*                                                                         *)
(* Time is in milliseconds (Date.now()).  Positions and velocities of the  *)
(* prediction engine are fixed-point numbers in units of 1/10000 of a      *)
(* world unit; the snapshots are chosen so that every square root and      *)
(* every blend product is a whole number of units.                         *)
(***************************************************************************)
EXTENDS Integers, Sequences, FiniteSets, TLC

VARIABLES
  proto,      \* the NetworkProtocol instance: its fields
  now,        \* Date.now()
  ret,        \* the last NetworkProtocol call and what it returned
  resent,     \* history: sequenceId -> times getRetransmissions returned it
  acked,      \* history: sequence ids whose pending entry processAck removed
  lost,       \* history: sequence ids a sweep evicted
  client,     \* the ClientPrediction instance: its fields
  out,        \* the last ClientPrediction call and what it logged
  applied,    \* history: every input applyInput was given, with its tick
  snaps,      \* history: the ticks of the snapshots processed, in order
  sharing,    \* pairs of references that hold one and the same object
  callerSnapshot, \* the object the caller passed to onServerSnapshot last
  clientProto,    \* demonstrateProtocol: the client's NetworkProtocol
  serverProto,    \* demonstrateProtocol: the server's NetworkProtocol
  inFlight,       \* packets on their way to the server
  toClient,       \* packets on their way to the client
  acksInFlight,   \* ack packets on their way back to the client
  lostInTransit,  \* history: sequence ids of client packets the network dropped
  delivered,      \* history: [sequenceId, attempt] of the packets the server was handed
  swept,          \* the demonstration has run its retransmission check
  linkRet,        \* the last step of the demonstration and what it returned
  arrival,        \* history: the ids of receivedSequences, in order of receipt
  viz,            \* the NetcodeVisualizer component: its state
  timeouts,       \* pending setTimeout(() => setCorrecting(false), 500) callbacks
  program,        \* the program that is run: ClientPrediction or NetcodeVisualizer
  sync,           \* the requester's TimeSync instance: its fields
  peer,           \* the responder's TimeSync instance: its fields
  syncNow,        \* Date.now() of the requester
  trueOffset,     \* the requester's clock minus the responder's clock
  requests,       \* sync requests on their way to the responder
  responses,      \* sync responses on their way to the requester
  syncRet,        \* the last TimeSync call and what it returned
  rawOffsets      \* history: the raw offsets processSyncResponse computed

protoVars == <<proto, now, ret, resent, acked, lost>>
clientVars == <<client, out, applied, snaps, sharing, callerSnapshot>>
linkVars == <<clientProto, serverProto, inFlight, toClient, acksInFlight,
              lostInTransit, delivered, swept, linkRet>>
vars == <<proto, now, ret, resent, acked, lost, client, out, applied, snaps,
          sharing, callerSnapshot,
          clientProto, serverProto, inFlight, toClient, acksInFlight,
          lostInTransit, delivered, swept, linkRet, arrival, viz, timeouts, program,
          sync, peer, syncNow, trueOffset, requests, responses, syncRet,
          rawOffsets>>
syncVars == <<sync, peer, syncNow, trueOffset, requests, responses, syncRet,
              rawOffsets>>
\* what the steps of one component leave alone
vizVars == <<viz, timeouts>>
besidesProto == <<clientVars, linkVars, arrival, vizVars, program, syncVars>>
besidesClient == <<protoVars, linkVars, arrival, vizVars, program, syncVars>>
besidesTimeSync == <<protoVars, clientVars, linkVars, arrival, vizVars, program>>

----------------------------------------------------------------------------
(* Bounds of the model *)

\* packets one instance creates
MaxPackets == 2
\* the clock stops here
MaxTime == 404
\* sequence ids of inbound packets are below this
MaxInboundSeq == 1

\* input packets the demonstration's client sends after its hello
MaxDemoInputs == 2
\* the demonstration's clock stops here
MaxDemoTime == 202
\* input packets the sender of the run with lost acknowledgments creates
MaxAckLossInputs == 1
\* the clock of that run stops here
MaxAckLossTime == 404

\* late packets: ids below everything a long-running receiver has seen
MaxLateIds == 3
\* packets with ids above everything it has seen
MaxFreshIds == 2

\* frames of the visualizer
MaxVizTime == 21
\* setTimeout callbacks of the visualizer that are pending at once
MaxTimeouts == 2

\* sync requests one TimeSync instance creates
MaxSyncRequests == 4
\* milliseconds the requester's clock runs beyond the drift interval
MaxSyncOvertime == 140
\* sync requests sent over the network that reorders and duplicates
MaxDisorderRequests == 2
\* responses the requester has processed when the network stops duplicating
MaxDisorderSamples == 2
\* the requester's clock stops here on that network
MaxDisorderTime == 100

\* applyInput calls of one client
MaxInputs == 3
\* snapshots one client processes
MaxSnapshots == 2

(* Program constants *)

CLIENT_HELLO == 1
CLIENT_INPUT == 2
CLIENT_ACK == 4
SERVER_SNAPSHOT == 17

maxRetries == 3
ackTimeout == 100
\* the seen-set is trimmed when it grows beyond SeenCap, by TrimCount ids
SeenCap == 1000
TrimCount == 500

\* steps of the clock: exactly the timeout, and just past it
TimeSteps == {ackTimeout, ackTimeout + 1}
\* The protocol never reads a payload.  The caller's i-th packet carries
\* payload <<"out", i>>, and the peer's packet with sequence id s carries
\* <<"in", s>> (a duplicate is the same packet again).
OutPayload(i) == <<"out", i>>
InPayload(s) == <<"in", s>>
InboundSeqs == 0 .. (MaxInboundSeq - 1)

----------------------------------------------------------------------------
(* NetworkProtocol *)

NewProtocol ==
  [ nextSequenceId |-> 0,
    pendingAcks |-> << >>,          \* sequenceId -> [packet, timestamp, retries]
    receivedSequences |-> {},       \* a Set (its insertion order is never read)
    packetsLost |-> 0 ]

Without(f, k) == [x \in DOMAIN f \ {k} |-> f[x]]

RECURSIVE SortedSeq(_)
SortedSeq(S) ==
  IF S = {} THEN << >>
  ELSE LET m == CHOOSE x \in S : \A y \in S : x <= y
       IN <<m>> \o SortedSeq(S \ {m})

\* createAck(sequenceId)
createAck(sequenceId, t) ==
  [type |-> CLIENT_ACK, sequenceId |-> sequenceId, timestamp |-> t]

\* a counter that only counts the packets that are tracked
createPacketCountsTracked(self, type, payload, requiresAck, t) ==
  LET packet == [ type |-> type,
                  sequenceId |-> self.nextSequenceId,
                  payload |-> payload,
                  requiresAck |-> requiresAck,
                  timestamp |-> t ]
      entry == [packet |-> packet, timestamp |-> packet.timestamp, retries |-> 0]
  IN [ self |-> IF requiresAck
                THEN [self EXCEPT !.nextSequenceId = @ + 1,
                                  !.pendingAcks = (packet.sequenceId :> entry) @@ @]
                ELSE self,
       value |-> packet ]

\* createPacket(type, payload, requiresAck): the instance afterwards and the packet
createPacket(self, type, payload, requiresAck, t) ==
  LET packet == [ type |-> type,
                  sequenceId |-> self.nextSequenceId,
                  payload |-> payload,
                  requiresAck |-> requiresAck,
                  timestamp |-> t ]
      entry == [packet |-> packet, timestamp |-> packet.timestamp, retries |-> 0]
  IN [ self |-> [self EXCEPT
                   !.nextSequenceId = @ + 1,
                   !.pendingAcks = IF requiresAck
                                   THEN (packet.sequenceId :> entry) @@ @
                                   ELSE @],
       value |-> packet ]

\* createSnapshot(tick, state, isDelta, lastAckedInput)
createSnapshot(self, tick, state, isDelta, lastAckedInput, t) ==
  createPacket(self, SERVER_SNAPSHOT,
               [ tick |-> tick, state |-> state, isDelta |-> isDelta,
                 lastAckedInput |-> lastAckedInput, timestamp |-> t ],
               FALSE, t)

RECURSIVE Beyond(_, _)
\* a power of two above every id of the set
Beyond(seen, p) ==
  IF \A w \in seen : w < p THEN p ELSE Beyond(seen, 2 * p)

RECURSIVE SortedAt(_, _, _, _)
\* sorted[k - 1] of the ids sorted by (a, b) => a - b: the least v in lo .. hi
\* with at least k ids up to v
SortedAt(seen, k, lo, hi) ==
  IF lo = hi THEN lo
  ELSE LET mid == (lo + hi) \div 2
       IN IF Cardinality({w \in seen : w <= mid}) >= k
          THEN SortedAt(seen, k, lo, mid)
          ELSE SortedAt(seen, k, mid + 1, hi)

\* sorted[0 .. TrimCount - 1] of the ids sorted by (a, b) => a - b
Smallest(seen) ==
  IF Cardinality(seen) <= TrimCount THEN seen
  ELSE LET last == SortedAt(seen, TrimCount, 0, Beyond(seen, 1))
       IN {v \in seen : v <= last}

\* a trim as soon as the cap is reached
TrimSeenAtCap(seen) ==
  IF Cardinality(seen) >= SeenCap THEN seen \ Smallest(seen) ELSE seen

\* "Clean old sequences": the TrimCount numerically smallest ids are deleted
TrimSeen(seen) ==
  IF Cardinality(seen) > SeenCap THEN seen \ Smallest(seen) ELSE seen

\* the packet is new to this instance
FirstReceipt(self, packet, t) ==
  [ self |-> [self EXCEPT
                !.receivedSequences = TrimSeen(@ \cup {packet.sequenceId})],
    value |-> IF packet.requiresAck
              THEN [ kind |-> "payload+ack", payload |-> packet.payload,
                     ackPacket |-> createAck(packet.sequenceId, t) ]
              ELSE [ kind |-> "payload", payload |-> packet.payload ] ]

\* no duplicate check: every packet is delivered
processPacketNoDedup(self, packet, t) ==
  IF packet.sequenceId \in self.receivedSequences
  THEN [ self |-> self, value |-> FirstReceipt(self, packet, t).value ]
  ELSE FirstReceipt(self, packet, t)

\* processPacket(packet): null for a duplicate
processPacket(self, packet, t) ==
  IF packet.sequenceId \in self.receivedSequences
  THEN [self |-> self, value |-> [kind |-> "null"]]
  ELSE FirstReceipt(self, packet, t)

\* a cumulative acknowledgment: every entry up to sequenceId is dropped
processAckCumulative(self, sequenceId) ==
  [self EXCEPT !.pendingAcks = [k \in {x \in DOMAIN @ : x > sequenceId} |-> @[k]]]

\* an acknowledgment that is only logged
processAckKeeps(self, sequenceId) == self

\* processAck(sequenceId)
processAck(self, sequenceId) ==
  IF sequenceId \in DOMAIN self.pendingAcks
  THEN [self EXCEPT !.pendingAcks = Without(@, sequenceId)]
  ELSE self

TimedOutInclusive(elapsed) == elapsed >= ackTimeout

\* a timeout twice as long as configured
TimedOutLate(elapsed) == elapsed > 2 * ackTimeout

\* elapsed > this.ackTimeout
TimedOut(elapsed) == elapsed > ackTimeout

CanRetryInclusive(pending) == pending.retries <= maxRetries

\* pending.retries < this.maxRetries
CanRetry(pending) == pending.retries < maxRetries

\* giving up on one packet drops the whole pending table
SweepEntryClears(acc, seqId, t) ==
  IF seqId \notin DOMAIN acc.pendingAcks THEN acc
  ELSE LET pending == acc.pendingAcks[seqId]
           elapsed == t - pending.timestamp
       IN IF TimedOut(elapsed)
          THEN IF CanRetry(pending)
               THEN [acc EXCEPT
                       !.pendingAcks[seqId] =
                           [pending EXCEPT !.retries = @ + 1, !.timestamp = t],
                       !.toRetransmit = Append(@, pending.packet)]
               ELSE [acc EXCEPT !.pendingAcks = << >>, !.packetsLost = @ + 1]
          ELSE acc

\* a resend restarts the timer of every pending entry
SweepEntryRestamps(acc, seqId, t) ==
  LET pending == acc.pendingAcks[seqId]
      elapsed == t - pending.timestamp
  IN IF TimedOut(elapsed)
     THEN IF CanRetry(pending)
          THEN [acc EXCEPT
                  !.pendingAcks =
                      [k \in DOMAIN @ |->
                         IF k = seqId
                         THEN [pending EXCEPT !.retries = @ + 1, !.timestamp = t]
                         ELSE [@[k] EXCEPT !.timestamp = t]],
                  !.toRetransmit = Append(@, pending.packet)]
          ELSE [acc EXCEPT
                  !.pendingAcks = Without(@, seqId),
                  !.packetsLost = @ + 1]
     ELSE acc

\* giving up on a packet without counting it
SweepEntryUncounted(acc, seqId, t) ==
  LET pending == acc.pendingAcks[seqId]
      elapsed == t - pending.timestamp
  IN IF TimedOut(elapsed)
     THEN IF CanRetry(pending)
          THEN [acc EXCEPT
                  !.pendingAcks[seqId] =
                      [pending EXCEPT !.retries = @ + 1, !.timestamp = t],
                  !.toRetransmit = Append(@, pending.packet)]
          ELSE [acc EXCEPT !.pendingAcks = Without(@, seqId)]
     ELSE acc

\* a resend that does not restart the timer
SweepEntryKeepsTimestamp(acc, seqId, t) ==
  LET pending == acc.pendingAcks[seqId]
      elapsed == t - pending.timestamp
  IN IF TimedOut(elapsed)
     THEN IF CanRetry(pending)
          THEN [acc EXCEPT
                  !.pendingAcks[seqId] = [pending EXCEPT !.retries = @ + 1],
                  !.toRetransmit = Append(@, pending.packet)]
          ELSE [acc EXCEPT
                  !.pendingAcks = Without(@, seqId),
                  !.packetsLost = @ + 1]
     ELSE acc

\* the body of the sweep's loop for one entry
SweepEntry(acc, seqId, t) ==
  LET pending == acc.pendingAcks[seqId]
      elapsed == t - pending.timestamp
  IN IF TimedOut(elapsed)
     THEN IF CanRetry(pending)
          THEN [acc EXCEPT
                  !.pendingAcks[seqId] =
                      [pending EXCEPT !.retries = @ + 1, !.timestamp = t],
                  !.toRetransmit = Append(@, pending.packet)]
          ELSE [acc EXCEPT
                  !.pendingAcks = Without(@, seqId),
                  !.packetsLost = @ + 1]
     ELSE acc

RECURSIVE SweepLoop(_, _, _)
SweepLoop(keys, acc, t) ==
  IF keys = << >> THEN acc
  ELSE SweepLoop(Tail(keys), SweepEntry(acc, Head(keys), t), t)

\* getRetransmissions(): the Map is walked in insertion order, which is the
\* order of the sequence ids
getRetransmissions(self, t) ==
  LET acc == SweepLoop(SortedSeq(DOMAIN self.pendingAcks),
                       [ pendingAcks |-> self.pendingAcks,
                         packetsLost |-> self.packetsLost,
                         toRetransmit |-> << >> ], t)
  IN [ self |-> [self EXCEPT !.pendingAcks = acc.pendingAcks,
                             !.packetsLost = acc.packetsLost],
       value |-> acc.toRetransmit ]

----------------------------------------------------------------------------
(* ClientPrediction *)

\* const speed = 5
speed == 50000
\* this.reconciliationThreshold = 0.1
reconciliationThreshold == 1000
\* the blend factor is at most 0.1 = 1 / maxBlendInverse
maxBlendInverse == 10

Min(a, b) == IF a <= b THEN a ELSE b

Abs(n) == IF n < 0 THEN -n ELSE n

RECURSIVE SqrtBetween(_, _, _)
\* the largest r in lo .. hi with r * r <= n
SqrtBetween(n, lo, hi) ==
  IF lo = hi THEN lo
  ELSE LET mid == (lo + hi + 1) \div 2
       IN IF mid * mid <= n THEN SqrtBetween(n, mid, hi)
          ELSE SqrtBetween(n, lo, mid - 1)

\* Math.sqrt
Sqrt(n) == SqrtBetween(n, 0, Min(n, 46340))

NewClient ==
  [ predictedState |-> [x |-> 0, y |-> 0, velocityX |-> 0, velocityY |-> 0],
    serverState |-> [x |-> 0, y |-> 0, velocityX |-> 0, velocityY |-> 0, tick |-> 0],
    inputBuffer |-> << >>,
    clientTick |-> 0 ]

\* updateState(state, input)
updateState(state, input) ==
  LET velocityX == input.moveX * speed
      velocityY == input.moveY * speed
  IN [state EXCEPT !.velocityX = velocityX,
                   !.velocityY = velocityY,
                   !.x = @ + velocityX,
                   !.y = @ + velocityY]

\* an input that is buffered and sent but not applied until the server answers
applyInputDeferred(self, input) ==
  [ self EXCEPT
      !.inputBuffer = Append(@, [tick |-> self.clientTick, input |-> input]),
      !.clientTick = @ + 1 ]

\* a tick counter that is not advanced
applyInputSameTick(self, input) ==
  [ self EXCEPT
      !.inputBuffer = Append(@, [tick |-> self.clientTick, input |-> input]),
      !.predictedState = updateState(@, input) ]

\* applyInput(input)
applyInput(self, input) ==
  [ self EXCEPT
      !.inputBuffer = Append(@, [tick |-> self.clientTick, input |-> input]),
      !.predictedState = updateState(@, input),
      !.clientTick = @ + 1 ]

\* sendToServer(data): the message is only logged
sendToServer(data) == [sent |-> data]

\* calculateDivergence(predicted, server)
calculateDivergence(predicted, server) ==
  LET dx == predicted.x - server.x
      dy == predicted.y - server.y
  IN Sqrt(dx * dx + dy * dy)

\* a correction that jumps to the server position
smoothCorrectionSnap(self, divergence) ==
  [ self EXCEPT !.predictedState.x = self.serverState.x,
                !.predictedState.y = self.serverState.y ]

\* smoothCorrection(divergence)
smoothCorrection(self, divergence) ==
  LET scaled == Min(divergence, reconciliationThreshold)
      den == reconciliationThreshold * maxBlendInverse
  IN [ self EXCEPT
         !.predictedState.x = @ + ((self.serverState.x - @) * scaled) \div den,
         !.predictedState.y = @ + ((self.serverState.y - @) * scaled) \div den ]

unacknowledgedInputsFromTick(inputBuffer, tick) ==
  SelectSeq(inputBuffer, LAMBDA buffered : buffered.tick >= tick)

\* this.inputBuffer.filter((buffered) => buffered.tick > serverSnapshot.tick)
unacknowledgedInputs(inputBuffer, tick) ==
  SelectSeq(inputBuffer, LAMBDA buffered : buffered.tick > tick)

RECURSIVE replay(_, _)
\* for (const buffered of unacknowledgedInputs) this.updateState(...)
replay(state, inputs) ==
  IF inputs = << >> THEN state
  ELSE replay(updateState(state, Head(inputs).input), Tail(inputs))

\* rollbackAndReplay(serverSnapshot)
rollbackAndReplay(self, serverSnapshot) ==
  [ self EXCEPT
      !.predictedState =
          replay(serverSnapshot,
                 unacknowledgedInputs(self.inputBuffer, serverSnapshot.tick)) ]

\* a buffer that is never cleaned up
prunedNever(inputBuffer, tick) == inputBuffer

prunedFromTick(inputBuffer, tick) ==
  SelectSeq(inputBuffer, LAMBDA buffered : buffered.tick >= tick)

\* a clean-up that empties the buffer
prunedAll(inputBuffer, tick) == << >>

\* step 5 of onServerSnapshot: the buffer without the acknowledged inputs
pruned(inputBuffer, tick) ==
  SelectSeq(inputBuffer, LAMBDA buffered : buffered.tick > tick)

\* a rollback that is also taken at exactly the threshold
onServerSnapshotInclusive(self, snapshot) ==
  LET s1 == [self EXCEPT !.serverState = snapshot]
      divergence == calculateDivergence(s1.predictedState, s1.serverState)
      rollback == divergence >= reconciliationThreshold
      s2 == IF rollback THEN rollbackAndReplay(s1, snapshot)
            ELSE smoothCorrection(s1, divergence)
  IN [ self |-> [s2 EXCEPT !.inputBuffer = pruned(@, snapshot.tick)],
       log |-> [ divergence |-> divergence,
                 branch |-> IF rollback THEN "rollback" ELSE "blend",
                 replayed |-> IF rollback
                              THEN Len(unacknowledgedInputs(s1.inputBuffer,
                                                            snapshot.tick))
                              ELSE 0 ] ]

\* onServerSnapshot(snapshot): the instance afterwards and what was logged
onServerSnapshot(self, snapshot) ==
  LET s1 == [self EXCEPT !.serverState = snapshot]
      divergence == calculateDivergence(s1.predictedState, s1.serverState)
      rollback == divergence > reconciliationThreshold
      s2 == IF rollback THEN rollbackAndReplay(s1, snapshot)
            ELSE smoothCorrection(s1, divergence)
  IN [ self |-> [s2 EXCEPT !.inputBuffer = pruned(@, snapshot.tick)],
       log |-> [ divergence |-> divergence,
                 branch |-> IF rollback THEN "rollback" ELSE "blend",
                 replayed |-> IF rollback
                              THEN Len(unacknowledgedInputs(s1.inputBuffer,
                                                            snapshot.tick))
                              ELSE 0 ] ]

(* Objects.  A field of the instance is a reference to an object, and so is
   the caller's `snapshot`; `sharing` holds the pairs of references that
   refer to one object, through which a write to one is seen by the other. *)

Refs == {"predictedState", "serverState", "snapshot"}

\* ref = { ...object }: a new object, which no other reference holds
spread(shared, ref) == {pair \in shared : ref \notin pair}

\* ref = other: the object of `other`, and of all that share it
assign(shared, ref, other) ==
  LET rest == spread(shared, ref)
  IN rest \cup {{ref, r} : r \in {other} \cup {q \in Refs : {other, q} \in rest}}

\* a rewind that keeps the caller's object: this.predictedState = serverSnapshot
rewindShared(shared) == assign(shared, "predictedState", "snapshot")

\* rollbackAndReplay step 1: this.predictedState = { ...serverSnapshot }
rewind(shared) == spread(shared, "predictedState")

\* onServerSnapshot: the caller passes an object of its own, step 1 copies it
\* (this.serverState = { ...snapshot }), and a rollback rewinds
onServerSnapshotSharing(shared, rollback) ==
  LET stored == spread(spread(shared, "snapshot"), "serverState")
  IN IF rollback THEN rewind(stored) ELSE stored

\* updateState and smoothCorrection write into the object of predictedState:
\* the serverState field as it reads afterwards
writtenServerState(self, shared) ==
  IF {"predictedState", "serverState"} \in shared THEN self.predictedState
  ELSE self.serverState

\* and the caller's object as it reads afterwards
writtenSnapshot(self, shared, object) ==
  IF {"predictedState", "snapshot"} \in shared THEN <<self.predictedState>>
  ELSE object

----------------------------------------------------------------------------
(* NetcodeVisualizer: positions are fixed-point numbers in units of 1/100   *)

tickRate == 64
clientRate == 144
\* useState(100) of serverPos, clientPredPos, clientAuthPos
StartPos == 10000
\* useState(50) of latency
StartLatency == 50
\* min="10" of the latency slider
MinLatency == 10
\* "Wrong prediction": newPos + 30
WrongPrediction == 3000
\* "Check for misprediction": delta > 5
MispredictDelta == 500
\* triggerMispredict: the current tick + 5
MispredictLead == 5

\* Math.floor(clientRate / tickRate)
FramesPerInput == clientRate \div tickRate
\* Math.floor(time / (clientRate / tickRate))
TickOf(time) == (time * tickRate) \div clientRate
\* Math.sin(time * 0.02) * 2, by the series x - x^3 / 6
Move(time) == 4 * time - (time * time * time) \div 3750

NewVisualizer ==
  [ time |-> 0, running |-> FALSE, latency |-> StartLatency, packetLoss |-> 0,
    mispredictAt |-> -1,
    serverPos |-> StartPos, clientPredPos |-> StartPos, clientAuthPos |-> StartPos,
    packets |-> << >>, inputs |-> 0, snapshots |-> << >>, correcting |-> FALSE ]

\* "Client generates input every frame": the input is counted, its packet is
\* sent and the prediction is moved at once
generateInput(self, dropped) ==
  IF self.time % FramesPerInput # 0 THEN self
  ELSE LET input == [ seq |-> TickOf(self.time), time |-> self.time,
                      move |-> Move(self.time), sentAt |-> self.time,
                      type |-> "input" ]
           packet == [ seq |-> input.seq, time |-> input.time,
                       move |-> input.move, sentAt |-> input.sentAt,
                       type |-> "input",
                       arriveAt |-> self.time + self.latency, lost |-> dropped ]
       IN [ self EXCEPT
              !.inputs = @ + 1,
              !.packets = Append(@, packet),
              !.clientPredPos =
                  IF input.seq = self.mispredictAt
                  THEN @ + input.move + WrongPrediction
                  ELSE @ + input.move ]

\* "Server processes arrived inputs"; serverPos is the value the callback
\* closed over
serverProcess(self, time, serverPos, dropped) ==
  LET arrived == SelectSeq(self.packets,
                   LAMBDA q : q.type = "input" /\ q.arriveAt <= time /\ ~q.lost)
      rest == SelectSeq(self.packets, LAMBDA q : q.arriveAt > time)
  IN IF arrived # << >>
     THEN LET latest == arrived[Len(arrived)]
              snap == [ seq |-> latest.seq, pos |-> serverPos + latest.move,
                        ackSeq |-> latest.seq, time |-> time, sentAt |-> time,
                        type |-> "snapshot",
                        arriveAt |-> time + self.latency, lost |-> dropped ]
          IN [ self EXCEPT !.serverPos = @ + latest.move,
                           !.snapshots = Append(@, snap),
                           !.packets = Append(rest, snap) ]
     ELSE [self EXCEPT !.packets = rest]

\* a misprediction that is flagged but never scheduled to be cleared
clientReceiveNoTimeout(self, time, clientPredPos) ==
  LET arrived == SelectSeq(self.snapshots,
                   LAMBDA s : s.arriveAt <= time /\ ~s.lost)
      rest == SelectSeq(self.snapshots, LAMBDA s : s.arriveAt > time)
  IN IF arrived # << >>
     THEN LET latest == arrived[Len(arrived)]
              delta == IF clientPredPos >= latest.pos
                       THEN clientPredPos - latest.pos
                       ELSE latest.pos - clientPredPos
          IN [ self |-> [self EXCEPT
                           !.correcting = IF delta > MispredictDelta THEN TRUE ELSE @,
                           !.clientAuthPos = latest.pos,
                           !.snapshots = rest],
               setTimeout |-> 0 ]
     ELSE [self |-> [self EXCEPT !.snapshots = rest], setTimeout |-> 0]

\* "Client receives snapshots"; clientPredPos is the value the callback
\* closed over; setTimeout is the number of callbacks it schedules
clientReceive(self, time, clientPredPos) ==
  LET arrived == SelectSeq(self.snapshots,
                   LAMBDA s : s.arriveAt <= time /\ ~s.lost)
      rest == SelectSeq(self.snapshots, LAMBDA s : s.arriveAt > time)
  IN IF arrived # << >>
     THEN LET latest == arrived[Len(arrived)]
              delta == IF clientPredPos >= latest.pos
                       THEN clientPredPos - latest.pos
                       ELSE latest.pos - clientPredPos
          IN [ self |-> [self EXCEPT
                           !.correcting = IF delta > MispredictDelta THEN TRUE ELSE @,
                           !.clientAuthPos = latest.pos,
                           !.snapshots = rest],
               setTimeout |-> IF delta > MispredictDelta THEN 1 ELSE 0 ]
     ELSE [self |-> [self EXCEPT !.snapshots = rest], setTimeout |-> 0]

\* the callback of setInterval: one frame
frame(self, inputLost, snapshotLost) ==
  LET s1 == generateInput(self, inputLost)
      s2 == serverProcess(s1, self.time, self.serverPos, snapshotLost)
      r == clientReceive(s2, self.time, self.clientPredPos)
  IN [self |-> [r.self EXCEPT !.time = self.time + 1], setTimeout |-> r.setTimeout]

\* reset()
reset(self) ==
  [ self EXCEPT
      !.time = 0, !.serverPos = StartPos, !.clientPredPos = StartPos,
      !.clientAuthPos = StartPos, !.packets = << >>, !.inputs = 0,
      !.snapshots = << >>, !.correcting = FALSE, !.mispredictAt = -1 ]

\* triggerMispredict()
triggerMispredict(self) ==
  [self EXCEPT !.mispredictAt = TickOf(self.time) + MispredictLead]

----------------------------------------------------------------------------
(* TimeSync.  Date.now() is a whole number of milliseconds, and so is every
   RTT; clockOffset, smoothedRtt and jitter are fixed-point numbers in units
   of 1/Unit ms, clockDrift in units of 1/Unit ms per second, and a quotient
   is rounded down to a whole number of units.                             *)

\* a * k / b rounded down, for b > 0, computed without a product beyond
\* 32 bits
Scaled(a, k, b) == (a \div b) * k + ((a % b) * k) \div b

\* ticks per second of TimeSync: new TimeSync({ tickRate: 60 })
syncTickRate == 60
Unit == 1000
\* config.rttSamples || 10
rttSamples == 10
\* const threshold = 50; // ms
offsetThreshold == 50
\* if (elapsed > 10), in milliseconds
driftInterval == 10000

\* the constructor, run at local time t
NewTimeSync(t) ==
  [ serverTick |-> 0,
    clockOffset |-> 0,
    rttHistory |-> << >>,
    smoothedRtt |-> 0,
    clockDrift |-> 0,
    lastSyncTime |-> 0,
    lastDriftCheckTime |-> t,
    lastDriftOffset |-> 0,
    syncCount |-> 0,
    jitter |-> 0 ]

\* a request numbered after the count is advanced: ++this.syncCount
createSyncRequestPreIncrement(self, t) ==
  [ self |-> [self EXCEPT !.syncCount = @ + 1],
    value |-> [ type |-> "time_sync_req",
                clientSendTime |-> t,
                sequenceId |-> self.syncCount + 1 ] ]

\* createSyncRequest() at local time t: the instance afterwards and the request
createSyncRequest(self, t) ==
  [ self |-> [self EXCEPT !.syncCount = @ + 1],
    value |-> [ type |-> "time_sync_req",
                clientSendTime |-> t,
                sequenceId |-> self.syncCount ] ]

\* a responder that takes the tick it is given for its own last known tick
handleSyncRequestRecording(self, request, serverTick, t) ==
  [ self |-> [self EXCEPT !.serverTick = serverTick],
    value |-> [ type |-> "time_sync_res",
                clientSendTime |-> request.clientSendTime,
                serverReceiveTime |-> t,
                serverSendTime |-> t,
                serverTick |-> serverTick,
                sequenceId |-> request.sequenceId ] ]

\* handleSyncRequest(request, serverTick) at local time t
handleSyncRequest(self, request, serverTick, t) ==
  [ self |-> self,
    value |-> [ type |-> "time_sync_res",
                clientSendTime |-> request.clientSendTime,
                serverReceiveTime |-> t,
                serverSendTime |-> t,
                serverTick |-> serverTick,
                sequenceId |-> request.sequenceId ] ]

RECURSIVE SumOf(_)
\* reduce((a, b) => a + b, 0)
SumOf(list) == IF list = << >> THEN 0 ELSE Head(list) + SumOf(Tail(list))

RECURSIVE DeviationOf(_, _, _)
\* reduce((sum, val) => sum + Math.abs(val - meanRtt), 0) with
\* meanRtt = total / n, times n
DeviationOf(list, total, n) ==
  IF list = << >> THEN 0
  ELSE Abs(Head(list) * n - total) + DeviationOf(Tail(list), total, n)

\* updateRttStats(rtt)
updateRttStats(self, rtt) ==
  LET pushed == Append(self.rttHistory, rtt)
      history == IF Len(pushed) > rttSamples THEN Tail(pushed) ELSE pushed
      n == Len(history)
  IN [ self EXCEPT
         !.rttHistory = history,
         !.smoothedRtt = IF @ = 0 THEN rtt * Unit
                         ELSE (rtt * Unit + 7 * @) \div 8,
         !.jitter = (DeviationOf(history, SumOf(history), n) * Unit) \div (n * n) ]

\* a blend that adds a share of the raw offset, not of its difference
updateClockOffsetAdding(self, newOffset) ==
  IF self.clockOffset = 0 THEN [self EXCEPT !.clockOffset = newOffset]
  ELSE [self EXCEPT !.clockOffset = @ + newOffset \div 10]

\* updateClockOffset(newOffset)
updateClockOffset(self, newOffset) ==
  IF self.clockOffset = 0 THEN [self EXCEPT !.clockOffset = newOffset]
  ELSE LET delta == newOffset - self.clockOffset
       IN [ self EXCEPT
              !.clockOffset = IF Abs(delta) > offsetThreshold * Unit
                              THEN @ + delta \div 2
                              ELSE @ + delta \div 10 ]

\* a drift estimate that is also made when exactly the interval has elapsed
updateClockDriftInclusive(self, currentOffset, t) ==
  LET elapsed == t - self.lastDriftCheckTime
  IN IF elapsed >= driftInterval
     THEN [ self EXCEPT
              !.clockDrift = ((currentOffset - self.lastDriftOffset) * 1000) \div elapsed,
              !.lastDriftCheckTime = t,
              !.lastDriftOffset = currentOffset ]
     ELSE self

\* updateClockDrift(currentOffset) at local time t
updateClockDrift(self, currentOffset, t) ==
  LET elapsed == t - self.lastDriftCheckTime
  IN IF elapsed > driftInterval
     THEN [ self EXCEPT
              !.clockDrift =
                  Scaled(currentOffset - self.lastDriftOffset, 1000, elapsed),
              !.lastDriftCheckTime = t,
              !.lastDriftOffset = currentOffset ]
     ELSE self

\* processSyncResponse(response) at local time t: the instance afterwards,
\* and the RTT and the raw offset it computed
processSyncResponse(self, response, t) ==
  LET rtt == t - response.clientSendTime
      oneWayLatency == (rtt * Unit) \div 2
      estimatedServerTime == response.serverSendTime * Unit + oneWayLatency
      newOffset == t * Unit - estimatedServerTime
      measured == updateClockOffset(updateRttStats(self, rtt), newOffset)
      synced == [measured EXCEPT !.serverTick = response.serverTick,
                                 !.lastSyncTime = t]
  IN [ self |-> updateClockDrift(synced, newOffset, t),
       log |-> [rtt |-> rtt, newOffset |-> newOffset] ]

\* getServerTime() at local time t
getServerTime(self, t) ==
  LET timeSinceSync == t - self.lastSyncTime
      driftCorrection == (self.clockDrift * timeSinceSync) \div 1000
  IN t * Unit - self.clockOffset - driftCorrection

\* getServerTick() at local time t; tickDuration is 1000 / tickRate ms, so
\* Math.floor(timeSinceSync / tickDuration) is the floor of
\* timeSinceSync * tickRate / 1000
getServerTick(self, t) ==
  LET serverTime == getServerTime(self, t)
      timeSinceSync == serverTime - (self.lastSyncTime * Unit - self.clockOffset)
      ticksSinceSync == (timeSinceSync * syncTickRate) \div (1000 * Unit)
  IN self.serverTick + ticksSinceSync

\* the factor of one penalty, in hundredths
Penalty(value, poor, fair, good) ==
  IF value > poor * Unit THEN 30
  ELSE IF value > fair * Unit THEN 60
  ELSE IF value > good * Unit THEN 80
  ELSE 100

\* calculateQuality(), in units of 1/10000
calculateQuality(self) ==
  Penalty(self.smoothedRtt, 200, 100, 50) * Penalty(self.jitter, 50, 20, 10)

\* isSyncReliable()
isSyncReliable(self) == calculateQuality(self) > 5000 /\ self.syncCount > 3

----------------------------------------------------------------------------
(* One ClientPrediction instance driven by its caller and by the server *)

\* moveX, moveY of the inputs
Inputs ==
  { [moveX |-> 1, moveY |-> 0], [moveX |-> -1, moveY |-> 1] }

\* A snapshot lies at one of these offsets <<dx, dy>> from the predicted
\* position (none, within the threshold, exactly at the threshold, beyond it
\* and far beyond it: -0.5 and -4.5 are the offsets of the usage example's two
\* snapshots) and carries the velocity <<vx, vy>>.
Offsets ==
  { <<0, 0, speed, 0>>, <<-300, -400, 0, 0>>, <<600, 800, speed, 0>>,
    <<-5000, 0, speed, 0>>, <<-45000, 0, 0, 0>> }

Snapshots ==
  { [ x |-> client.predictedState.x + o[1],
      y |-> client.predictedState.y + o[2],
      velocityX |-> o[3], velocityY |-> o[4], tick |-> t ] :
    o \in Offsets, t \in 0 .. (MaxInputs - 1) }

InitClient ==
  /\ client = NewClient
  /\ out = [op |-> "new", arg |-> << >>, log |-> << >>]
  /\ applied = << >>
  /\ snaps = << >>
  /\ sharing = {}
  /\ callerSnapshot = << >>

ApplyInputOf(input) ==
  /\ client.clientTick < MaxInputs
  /\ \E next \in {applyInput(client, input)} :
       /\ client' = [next EXCEPT !.serverState = writtenServerState(next, sharing)]
       /\ callerSnapshot' = writtenSnapshot(next, sharing, callerSnapshot)
  /\ UNCHANGED sharing
  /\ out' = [ op |-> "applyInput", arg |-> input,
              log |-> sendToServer([ type |-> "input", tick |-> client.clientTick,
                                     input |-> input ]) ]
  /\ applied' = Append(applied, [tick |-> client.clientTick, input |-> input])
  /\ UNCHANGED snaps
  /\ UNCHANGED besidesClient

ApplyInput == \E input \in Inputs : ApplyInputOf(input)

OnServerSnapshotOf(snapshot) ==
  /\ Len(snaps) < MaxSnapshots
  /\ \E r \in {onServerSnapshot(client, snapshot)} :
       \E shared \in {onServerSnapshotSharing(sharing, r.log.branch = "rollback")} :
         /\ client' = [r.self EXCEPT !.serverState = writtenServerState(r.self, shared)]
         /\ callerSnapshot' = writtenSnapshot(r.self, shared, <<snapshot>>)
         /\ sharing' = shared
         /\ out' = [op |-> "onServerSnapshot", arg |-> snapshot, log |-> r.log]
  /\ snaps' = Append(snaps, snapshot.tick)
  /\ UNCHANGED applied
  /\ UNCHANGED besidesClient

OnServerSnapshot == \E snapshot \in Snapshots : OnServerSnapshotOf(snapshot)

----------------------------------------------------------------------------
(* One NetworkProtocol instance driven by its caller *)

Times(list, s) == Cardinality({i \in DOMAIN list : list[i].sequenceId = s})

InitProtocol ==
  /\ proto = NewProtocol
  /\ now = 0
  /\ ret = [op |-> "new"]
  /\ resent = [s \in 0 .. (MaxPackets - 1) |-> 0]
  /\ acked = {}
  /\ lost = {}

InitLink ==
  /\ clientProto = NewProtocol
  /\ serverProto = NewProtocol
  /\ inFlight = {}
  /\ toClient = {}
  /\ acksInFlight = {}
  /\ lostInTransit = {}
  /\ delivered = {}
  /\ swept = FALSE
  /\ linkRet = [op |-> "new"]

InitVisualizer ==
  /\ viz = NewVisualizer
  /\ timeouts = 0

\* both instances are constructed at the requester's local time 0
InitTimeSyncWith(offset) ==
  /\ trueOffset = offset
  /\ syncNow = 0
  /\ sync = NewTimeSync(0)
  /\ peer = NewTimeSync(0 - offset)
  /\ requests = {}
  /\ responses = {}
  /\ syncRet = [op |-> "new"]
  /\ rawOffsets = {}

InitTimeSync == InitTimeSyncWith(0)

Init ==
  /\ InitProtocol /\ InitClient /\ InitLink /\ arrival = << >>
  /\ InitVisualizer
  /\ InitTimeSync
  /\ program = "NetworkProtocol"

CreatePacket(type, payload, requiresAck) ==
  /\ proto.nextSequenceId < MaxPackets
  /\ LET r == createPacket(proto, type, payload, requiresAck, now)
     IN /\ proto' = r.self
        /\ ret' = [op |-> "createPacket", value |-> r.value]
  /\ UNCHANGED <<now, resent, acked, lost>>
  /\ UNCHANGED besidesProto

\* createInput(tick, input, timestamp)
CreateInput == CreatePacket(CLIENT_INPUT, OutPayload(proto.nextSequenceId), TRUE)

\* createClientHello(playerId, playerName)
CreateClientHello ==
  CreatePacket(CLIENT_HELLO, OutPayload(proto.nextSequenceId), FALSE)

\* the packets the peer may deliver
InboundPackets ==
  { [ type |-> IF a THEN CLIENT_INPUT ELSE CLIENT_HELLO,
      sequenceId |-> s, payload |-> InPayload(s), requiresAck |-> a ] :
    s \in InboundSeqs, a \in BOOLEAN }

ProcessPacketOf(packet) ==
  LET r == processPacket(proto, packet, now)
  IN /\ proto' = r.self
     /\ ret' = [op |-> "processPacket", value |-> r.value]
     /\ UNCHANGED <<now, resent, acked, lost>>
     /\ UNCHANGED besidesProto

ProcessPacket == \E packet \in InboundPackets : ProcessPacketOf(packet)

ProcessAckOf(s) ==
  /\ proto' = processAck(proto, s)
  /\ ret' = [op |-> "processAck"]
  /\ acked' = IF s \in DOMAIN proto.pendingAcks THEN acked \cup {s} ELSE acked
  /\ UNCHANGED <<now, resent, lost>>
  /\ UNCHANGED besidesProto

ProcessAck == \E s \in 0 .. (MaxPackets - 1) : ProcessAckOf(s)

GetRetransmissions ==
  LET r == getRetransmissions(proto, now)
  IN /\ proto' = r.self
     /\ ret' = [op |-> "getRetransmissions", value |-> r.value]
     /\ resent' = [s \in DOMAIN resent |-> resent[s] + Times(r.value, s)]
     /\ lost' = lost \cup (DOMAIN proto.pendingAcks \ DOMAIN r.self.pendingAcks)
     /\ UNCHANGED <<now, acked>>
     /\ UNCHANGED besidesProto

AdvanceClock ==
  \E d \in TimeSteps :
    /\ now + d <= MaxTime
    /\ now' = now + d
    /\ UNCHANGED <<proto, ret, resent, acked, lost>>
    /\ UNCHANGED besidesProto

Next ==
  \/ CreateInput
  \/ CreateClientHello
  \/ ProcessPacket
  \/ ProcessAck
  \/ GetRetransmissions
  \/ AdvanceClock

Spec == Init /\ [][Next]_vars

NextPrediction == ApplyInput \/ OnServerSnapshot

SpecPrediction == Init /\ [][NextPrediction]_vars

----------------------------------------------------------------------------
(* demonstrateProtocol: a client and a server NetworkProtocol joined by a   *)
(* network that loses and delays packets                                    *)

besidesLink ==
  <<proto, ret, resent, acked, lost, clientVars, arrival, vizVars, program, syncVars>>

\* Math.random() < lossRate
SendOutcomes(lossy) == IF lossy THEN {"lost", "sent"} ELSE {"sent"}

\* sendPacket(clientProto, serverProto, packet, lossRate) of a packet the
\* client has just created
ClientSend(r, lossy) ==
  \E o \in SendOutcomes(lossy) :
    /\ clientProto' = r.self
    /\ inFlight' = IF o = "sent"
                   THEN inFlight \cup {[packet |-> r.value, attempt |-> 0]}
                   ELSE inFlight
    /\ lostInTransit' = IF o = "lost"
                        THEN lostInTransit \cup {r.value.sequenceId}
                        ELSE lostInTransit
    /\ linkRet' = [op |-> "send"]
    /\ UNCHANGED <<serverProto, toClient, acksInFlight, delivered, swept, now>>
    /\ UNCHANGED besidesLink

\* "Client connects"
DemoHello ==
  /\ clientProto.nextSequenceId = 0
  /\ ClientSend(createPacket(clientProto, CLIENT_HELLO, OutPayload(0), FALSE, now),
                TRUE)

\* "Client sends inputs"
DemoInput ==
  /\ clientProto.nextSequenceId \in 1 .. MaxDemoInputs
  /\ ClientSend(createPacket(clientProto, CLIENT_INPUT,
                             OutPayload(clientProto.nextSequenceId), TRUE, now),
                TRUE)

\* the delivery callback of sendPacket, at the server
DemoDeliver ==
  \E f \in inFlight :
    LET r == processPacket(serverProto, f.packet, now)
    IN /\ serverProto' = r.self
       /\ inFlight' = inFlight \ {f}
       /\ acksInFlight' = IF r.value.kind = "payload+ack"
                          THEN acksInFlight \cup {r.value.ackPacket}
                          ELSE acksInFlight
       /\ delivered' = delivered \cup {[sequenceId |-> f.packet.sequenceId,
                                        attempt |-> f.attempt]}
       /\ linkRet' = [op |-> "deliver"]
       /\ UNCHANGED <<clientProto, toClient, lostInTransit, swept, now>>
       /\ UNCHANGED besidesLink

\* "Send ACK back": from.processAck(result.ackPacket.sequenceId)
DemoAck ==
  \E a \in acksInFlight :
    /\ clientProto' = processAck(clientProto, a.sequenceId)
    /\ acksInFlight' = acksInFlight \ {a}
    /\ linkRet' = [op |-> "ack"]
    /\ UNCHANGED <<serverProto, inFlight, toClient, lostInTransit, delivered, swept, now>>
    /\ UNCHANGED besidesLink

\* "Checking for Retransmissions": what the sweep returns is sent again,
\* without loss
DemoSweep ==
  LET r == getRetransmissions(clientProto, now)
  IN /\ ~swept
     /\ swept' = TRUE
     /\ clientProto' = r.self
     /\ inFlight' = inFlight \cup
                      { [ packet |-> r.value[i],
                          attempt |-> r.self.pendingAcks[r.value[i].sequenceId].retries ] :
                        i \in DOMAIN r.value }
     /\ linkRet' = [op |-> "sweep", value |-> r.value]
     /\ UNCHANGED <<serverProto, toClient, acksInFlight, lostInTransit, delivered, now>>
     /\ UNCHANGED besidesLink

\* "Server Snapshot": created by the server and sent to the client
DemoSnapshot ==
  /\ serverProto.nextSequenceId = 0
  /\ LET r == createSnapshot(serverProto, 10, <<"entities">>, FALSE, 2, now)
     IN /\ serverProto' = r.self
        /\ \E o \in SendOutcomes(TRUE) :
              toClient' = IF o = "sent" THEN toClient \cup {r.value} ELSE toClient
        /\ linkRet' = [op |-> "snapshot"]
  /\ UNCHANGED <<clientProto, inFlight, acksInFlight, lostInTransit, delivered, swept, now>>
  /\ UNCHANGED besidesLink

\* the delivery callback of sendPacket, at the client
DemoDeliverToClient ==
  \E p \in toClient :
    LET r == processPacket(clientProto, p, now)
    IN /\ clientProto' = r.self
       /\ toClient' = toClient \ {p}
       /\ linkRet' = [op |-> "deliverToClient"]
       /\ UNCHANGED <<serverProto, inFlight, acksInFlight, lostInTransit, delivered, swept, now>>
       /\ UNCHANGED besidesLink

\* the timers of the demonstration: time passes, by more than ackTimeout
DemoWait ==
  /\ now + ackTimeout + 1 <= MaxDemoTime
  /\ now' = now + ackTimeout + 1
  /\ UNCHANGED linkVars
  /\ UNCHANGED besidesLink

NextLink ==
  \/ DemoHello
  \/ DemoInput
  \/ DemoDeliver
  \/ DemoAck
  \/ DemoSweep
  \/ DemoSnapshot
  \/ DemoDeliverToClient
  \/ DemoWait

SpecLink == Init /\ [][NextLink]_vars

----------------------------------------------------------------------------
(* The same two endpoints on a network that also loses acknowledgments,     *)
(* with a retransmission check that is run again and again                  *)

\* the ack of sendPacket's inner setTimeout never reaches the sender
LoseAck ==
  \E a \in acksInFlight :
    /\ acksInFlight' = acksInFlight \ {a}
    /\ linkRet' = [op |-> "loseAck", sequenceId |-> a.sequenceId]
    /\ UNCHANGED <<clientProto, serverProto, inFlight, toClient, lostInTransit,
                   delivered, swept, now>>
    /\ UNCHANGED besidesLink

\* the sender creates an input packet and sends it
AckLossInput ==
  /\ clientProto.nextSequenceId < MaxAckLossInputs
  /\ ClientSend(createPacket(clientProto, CLIENT_INPUT,
                             OutPayload(clientProto.nextSequenceId), TRUE, now),
                TRUE)

\* a retransmission check that is run whenever its timer fires: what the
\* sweep returns is sent again, without loss
SweepAgain ==
  LET r == getRetransmissions(clientProto, now)
  IN /\ clientProto' = r.self
     /\ inFlight' = inFlight \cup
                      { [ packet |-> r.value[i],
                          attempt |-> r.self.pendingAcks[r.value[i].sequenceId].retries ] :
                        i \in DOMAIN r.value }
     /\ linkRet' = [op |-> "sweep", value |-> r.value]
     /\ UNCHANGED <<serverProto, toClient, acksInFlight, lostInTransit, delivered,
                    swept, now>>
     /\ UNCHANGED besidesLink

\* time passes, by more than ackTimeout
AckLossWait ==
  /\ now + ackTimeout + 1 <= MaxAckLossTime
  /\ now' = now + ackTimeout + 1
  /\ UNCHANGED linkVars
  /\ UNCHANGED besidesLink

NextAckLoss ==
  \/ AckLossInput
  \/ DemoDeliver
  \/ DemoAck
  \/ LoseAck
  \/ SweepAgain
  \/ AckLossWait

SpecAckLoss == Init /\ [][NextAckLoss]_vars

----------------------------------------------------------------------------
(* A NetworkProtocol that has been receiving for a while: its seen-set is   *)
(* one short of the cap                                                     *)

\* what it has received so far, in this order
Backlog == [i \in 1 .. (SeenCap - 1) |-> MaxLateIds + i - 1]
\* what arrives next, in any order
LateIds == 0 .. (MaxLateIds - 1)
FreshIds == (MaxLateIds + SeenCap - 1) .. (MaxLateIds + SeenCap + MaxFreshIds - 2)

InitLongRunning ==
  /\ proto = [NewProtocol EXCEPT
                !.receivedSequences = {Backlog[i] : i \in DOMAIN Backlog}]
  /\ arrival = Backlog
  /\ now = 0
  /\ ret = [op |-> "new"]
  /\ resent = [s \in 0 .. (MaxPackets - 1) |-> 0]
  /\ acked = {}
  /\ lost = {}
  /\ InitClient
  /\ InitLink
  /\ InitVisualizer
  /\ InitTimeSync
  /\ program = "NetworkProtocol"

\* processPacket of a packet that was never received before
ReceiveOf(packet) ==
  /\ packet.sequenceId \notin {arrival[i] : i \in DOMAIN arrival}
  /\ LET r == processPacket(proto, packet, now)
     IN /\ proto' = r.self
        /\ ret' = [op |-> "processPacket", value |-> r.value]
        /\ arrival' = SelectSeq(Append(arrival, packet.sequenceId),
                                LAMBDA s : s \in r.self.receivedSequences)
  /\ UNCHANGED <<now, resent, acked, lost>>
  /\ UNCHANGED <<clientVars, linkVars, vizVars, program, syncVars>>

\* the peer's input packet with sequence id s
InboundInput(s) ==
  [ type |-> CLIENT_INPUT, sequenceId |-> s, payload |-> InPayload(s),
    requiresAck |-> TRUE ]

ReceiveLate == \E s \in LateIds : ReceiveOf(InboundInput(s))

ReceiveFresh == \E s \in FreshIds : ReceiveOf(InboundInput(s))

NextLongRunning == ReceiveLate \/ ReceiveFresh

SpecLongRunning == InitLongRunning /\ [][NextLongRunning]_vars

----------------------------------------------------------------------------
(* The NetcodeVisualizer component driven by its interval timer, its        *)
(* timeouts and its controls                                                *)

besidesVisualizer == <<protoVars, clientVars, linkVars, arrival, program, syncVars>>

\* the slider position tried: the least latency
Latencies == {MinLatency}
\* Math.random() < (packetLoss / 100)
LossOutcomes == IF viz.packetLoss > 0 THEN BOOLEAN ELSE {FALSE}

\* the callback of setInterval
Frame ==
  /\ viz.running
  /\ viz.time < MaxVizTime
  /\ timeouts < MaxTimeouts
  /\ \E inputLost \in LossOutcomes, snapshotLost \in LossOutcomes :
       LET r == frame(viz, inputLost, snapshotLost)
       IN /\ viz' = r.self
          /\ timeouts' = timeouts + r.setTimeout
  /\ UNCHANGED besidesVisualizer

\* setTimeout(() => setCorrecting(false), 500)
ClearCorrecting ==
  /\ timeouts > 0
  /\ viz' = [viz EXCEPT !.correcting = FALSE]
  /\ timeouts' = timeouts - 1
  /\ UNCHANGED besidesVisualizer

\* the Start / Pause button
ToggleRunning ==
  /\ viz' = [viz EXCEPT !.running = ~@]
  /\ UNCHANGED timeouts
  /\ UNCHANGED besidesVisualizer

\* the reset button
Reset ==
  /\ viz' = reset(viz)
  /\ UNCHANGED timeouts
  /\ UNCHANGED besidesVisualizer

\* the "Inject Misprediction" button (disabled while paused)
TriggerMispredict ==
  /\ viz.running
  /\ viz' = triggerMispredict(viz)
  /\ UNCHANGED timeouts
  /\ UNCHANGED besidesVisualizer

\* the latency slider
SetLatency ==
  \E l \in Latencies :
    /\ viz' = [viz EXCEPT !.latency = l]
    /\ UNCHANGED timeouts
    /\ UNCHANGED besidesVisualizer

NextVisualizer ==
  \/ Frame
  \/ ClearCorrecting
  \/ ToggleRunning
  \/ Reset
  \/ TriggerMispredict
  \/ SetLatency

\* Reconciliation in the two programs that show it: a run is a run of the
\* ClientPrediction example or of the NetcodeVisualizer page.  The timeouts
\* of the page are run by the event loop.
InitReconciliation ==
  /\ InitProtocol /\ InitClient /\ InitLink /\ arrival = << >>
  /\ InitVisualizer
  /\ InitTimeSync
  /\ program \in {"ClientPrediction", "NetcodeVisualizer"}

\* the usage example's input, and snapshots as far from the prediction as
\* the usage example's, at any tick and in any order
ExampleInput == [moveX |-> 1, moveY |-> 0]
ExampleSnapshots ==
  {s \in Snapshots : client.predictedState.x - s.x \in {5000, 45000}}

RunPrediction ==
  /\ program = "ClientPrediction"
  /\ \/ ApplyInputOf(ExampleInput)
     \/ \E snapshot \in ExampleSnapshots : OnServerSnapshotOf(snapshot)

RunVisualizer == program = "NetcodeVisualizer" /\ NextVisualizer

NextReconciliation == RunPrediction \/ RunVisualizer

SpecReconciliation ==
  InitReconciliation /\ [][NextReconciliation]_vars /\ WF_vars(ClearCorrecting)

----------------------------------------------------------------------------
(* The NetcodeVisualizer while the latency slider is moved between two of
   its positions                                                           *)

SliderLatencies == {MinLatency, MinLatency + 4}

\* the latency slider, moved to another position
MoveLatencySlider ==
  \E l \in SliderLatencies \ {viz.latency} :
    /\ viz' = [viz EXCEPT !.latency = l]
    /\ UNCHANGED timeouts
    /\ UNCHANGED besidesVisualizer

\* the Start button
Start ==
  /\ ~viz.running
  /\ ToggleRunning

NextLatencyChange ==
  Start \/ Frame \/ TriggerMispredict \/ ClearCorrecting \/ MoveLatencySlider

InitLatencyChange ==
  /\ InitProtocol /\ InitClient /\ InitLink /\ arrival = << >>
  /\ InitVisualizer
  /\ InitTimeSync
  /\ program = "NetcodeVisualizer"

SpecLatencyChange == InitLatencyChange /\ [][NextLatencyChange]_vars

----------------------------------------------------------------------------
(* Two TimeSync instances, a requester and a responder, joined by a network
   that delivers each packet within the longest one-way delay              *)

\* simulateNetwork: latencyMs = 50, plus Math.random() * 20
latencyMs == 50
LatencySpread == 20
\* one-way delays of the network: the shortest and the longest
OneWay == {latencyMs, latencyMs + LatencySpread}
LongestOneWay == latencyMs + LatencySpread
\* the requester's clock minus the responder's, in ms
TrueOffsets == {0, 40, -120}
\* a pause between two exchanges: one fast round trip short of the interval
SyncPause == driftInterval - 2 * latencyMs

\* the tick of the authoritative loop, 60 per second, at the requester's time t
TickAt(t) == (t * 60) \div 1000

\* the responder's Date.now()
peerNow == syncNow - trueOffset

\* the requester creates a request; the network carries it, one exchange at
\* a time (performSync runs every 500 ms), or loses it
CreateSyncRequest ==
  /\ sync.syncCount < MaxSyncRequests
  /\ LET r == createSyncRequest(sync, syncNow)
     IN /\ sync' = r.self
        /\ \/ /\ requests \cup responses = {}
              /\ requests' = requests \cup {r.value}
           \/ requests' = requests
        /\ syncRet' = [op |-> "createSyncRequest", value |-> r.value]
  /\ UNCHANGED <<peer, syncNow, trueOffset, responses, rawOffsets>>
  /\ UNCHANGED besidesTimeSync

\* the responder answers a request that has arrived
HandleSyncRequest ==
  \E request \in requests :
    LET r == handleSyncRequest(peer, request, TickAt(syncNow), peerNow)
    IN /\ peer' = r.self
       /\ requests' = requests \ {request}
       /\ responses' = responses \cup {r.value}
       /\ syncRet' = [op |-> "handleSyncRequest", arg |-> request, value |-> r.value]
       /\ UNCHANGED <<sync, syncNow, trueOffset, rawOffsets>>
       /\ UNCHANGED besidesTimeSync

\* the requester is asked for the time itself, by a request like its own
AnswerSyncRequest ==
  /\ syncRet.op # "answerSyncRequest"
  /\ \E request \in requests :
       LET r == handleSyncRequest(sync, request, TickAt(syncNow), syncNow)
       IN /\ sync' = r.self
          /\ syncRet' = [op |-> "answerSyncRequest", arg |-> request, value |-> r.value]
  /\ UNCHANGED <<peer, syncNow, trueOffset, requests, responses, rawOffsets>>
  /\ UNCHANGED besidesTimeSync

ProcessSyncResponse ==
  \E response \in responses :
    LET r == processSyncResponse(sync, response, syncNow)
    IN /\ sync' = r.self
       /\ responses' = responses \ {response}
       /\ syncRet' = [op |-> "processSyncResponse", arg |-> response, log |-> r.log]
       /\ rawOffsets' = rawOffsets \cup {r.log.newOffset}
       /\ UNCHANGED <<peer, syncNow, trueOffset, requests>>
       /\ UNCHANGED besidesTimeSync

\* time passes while packets travel; none travels longer than LongestOneWay
SyncTravel ==
  /\ requests \cup responses # {}
  /\ \E d \in OneWay :
       /\ syncNow + d <= driftInterval + MaxSyncOvertime
       /\ \A request \in requests :
            syncNow + d - request.clientSendTime <= LongestOneWay
       /\ \A response \in responses :
            syncNow + d - (response.serverSendTime + trueOffset) <= LongestOneWay
       /\ syncNow' = syncNow + d
  /\ UNCHANGED <<sync, peer, trueOffset, requests, responses, syncRet, rawOffsets>>
  /\ UNCHANGED besidesTimeSync

\* nothing is exchanged for a while
SyncWait ==
  /\ requests \cup responses = {}
  /\ syncNow < SyncPause
  /\ syncNow' = syncNow + SyncPause
  /\ UNCHANGED <<sync, peer, trueOffset, requests, responses, syncRet, rawOffsets>>
  /\ UNCHANGED besidesTimeSync

NextTimeSync ==
  \/ CreateSyncRequest
  \/ HandleSyncRequest
  \/ AnswerSyncRequest
  \/ ProcessSyncResponse
  \/ SyncTravel
  \/ SyncWait

InitSynchronisation ==
  /\ InitProtocol /\ InitClient /\ InitLink /\ arrival = << >>
  /\ InitVisualizer
  /\ \E offset \in TrueOffsets : InitTimeSyncWith(offset)
  /\ program = "TimeSync"

SpecTimeSync == InitSynchronisation /\ [][NextTimeSync]_vars

----------------------------------------------------------------------------
(* TimeSync between machines whose clocks may be far apart, with the        *)
(* requester reading the estimated server tick                              *)

\* the requester's clock minus the responder's, in ms: none, a little, and
\* twenty seconds
ClockSkews == {0, 40, 20000}

\* "Client estimated server tick": clientSync.getServerTick()
GetServerTick ==
  /\ syncRet.op # "getServerTick"
  /\ syncRet' = [op |-> "getServerTick", tick |-> getServerTick(sync, syncNow)]
  /\ UNCHANGED <<sync, peer, syncNow, trueOffset, requests, responses, rawOffsets>>
  /\ UNCHANGED besidesTimeSync

NextServerTick ==
  \/ CreateSyncRequest
  \/ HandleSyncRequest
  \/ ProcessSyncResponse
  \/ GetServerTick
  \/ SyncTravel
  \/ SyncWait

InitServerTick ==
  /\ InitProtocol /\ InitClient /\ InitLink /\ arrival = << >>
  /\ InitVisualizer
  /\ \E offset \in ClockSkews : InitTimeSyncWith(offset)
  /\ program = "TimeSync"

SpecServerTick == InitServerTick /\ [][NextServerTick]_vars

----------------------------------------------------------------------------
(* TimeSync over a network that reorders and duplicates: requests overlap,  *)
(* responses are delivered in any order and may be delivered twice          *)

\* a request is created and sent, whatever is still on its way
SendSyncRequest ==
  /\ sync.syncCount < MaxDisorderRequests
  /\ LET r == createSyncRequest(sync, syncNow)
     IN /\ sync' = r.self
        /\ requests' = requests \cup {r.value}
        /\ syncRet' = [op |-> "createSyncRequest", value |-> r.value]
  /\ UNCHANGED <<peer, syncNow, trueOffset, responses, rawOffsets>>
  /\ UNCHANGED besidesTimeSync

\* the network delivers a response and keeps a copy that it delivers later
ProcessDuplicatedResponse ==
  \E response \in responses :
    LET r == processSyncResponse(sync, response, syncNow)
    IN /\ Len(sync.rttHistory) < MaxDisorderSamples
       /\ sync' = r.self
       /\ syncRet' = [op |-> "processSyncResponse", arg |-> response, log |-> r.log]
       /\ rawOffsets' = rawOffsets \cup {r.log.newOffset}
       /\ UNCHANGED <<peer, syncNow, trueOffset, requests, responses>>
       /\ UNCHANGED besidesTimeSync

\* time passes, whatever is on its way
SyncDelay ==
  /\ \E d \in OneWay :
       /\ syncNow + d <= MaxDisorderTime
       /\ syncNow' = syncNow + d
  /\ UNCHANGED <<sync, peer, trueOffset, requests, responses, syncRet, rawOffsets>>
  /\ UNCHANGED besidesTimeSync

NextSyncDisorder ==
  \/ SendSyncRequest
  \/ HandleSyncRequest
  \/ ProcessSyncResponse
  \/ ProcessDuplicatedResponse
  \/ SyncDelay

SpecSyncDisorder == InitSynchronisation /\ [][NextSyncDisorder]_vars

----------------------------------------------------------------------------
(* Properties of NetworkProtocol *)

SentIds == 0 .. (MaxPackets - 1)
\* the sequence ids of the packets in a list
IdsOf(list) == {list[i].sequenceId : i \in DOMAIN list}
Pending == DOMAIN proto.pendingAcks
Seen == proto.receivedSequences
Age(s) == now - proto.pendingAcks[s].timestamp
\* the sequence ids of the ack packets a processPacket result carries
AcksIn(value) ==
  IF value.kind = "payload+ack" THEN {value.ackPacket.sequenceId} ELSE {}

\* the steps of each method (ret tells the methods apart)
SweepStep == ret'.op = "getRetransmissions" /\ GetRetransmissions
PacketStep(packet) == ret'.op = "processPacket" /\ ProcessPacketOf(packet)
AckStep(s) == ret'.op = "processAck" /\ ProcessAckOf(s)

C1Step ==
  \A s \in SentIds :
    /\ resent'[s] <= maxRetries
    /\ s \in lost => resent'[s] = resent[s] /\ resent[s] = maxRetries
    /\ (SweepStep /\ s \in Pending /\ Age(s) > ackTimeout) =>
         IF resent[s] < maxRetries
         THEN /\ resent'[s] = resent[s] + 1
              /\ s \in DOMAIN proto'.pendingAcks
              /\ s \notin lost'
         ELSE /\ resent'[s] = resent[s]
              /\ s \notin DOMAIN proto'.pendingAcks
              /\ s \in lost'
              /\ proto'.packetsLost = proto.packetsLost + Cardinality(lost' \ lost)

\* C1: a packet that requires an ack and never gets one is returned by the
\* sweeps that find it timed out exactly maxRetries times; the next such sweep
\* removes it from pendingAcks and counts it in packetsLost; no later sweep
\* returns it.
C1_RetransmissionBound == [][C1Step]_vars

C1_Witness ==
  \E s \in lost : resent[s] = maxRetries /\ proto.packetsLost >= 1

\* C5: processPacket of a packet whose sequenceId is already in
\* receivedSequences delivers nothing (null) and changes no field of the
\* instance; so does every repetition.
C5_DuplicateDropped ==
  [][\A packet \in InboundPackets :
       (PacketStep(packet) /\ packet.sequenceId \in Seen) =>
          /\ ret'.value.kind = "null"
          /\ proto' = proto]_vars

C5_Witness ==
  /\ ret.op = "processPacket"
  /\ ret.value.kind = "null"
  /\ Pending # {}
  /\ proto.packetsLost > 0

\* C6: a duplicate of a packet with requiresAck = true still yields an ack
\* packet carrying its sequenceId.
C6_DuplicateReAcked ==
  [][\A packet \in InboundPackets :
       (PacketStep(packet) /\ packet.sequenceId \in Seen
          /\ packet.requiresAck) =>
          AcksIn(ret'.value) = {packet.sequenceId}]_vars

\* C8: once processAck(s) has removed the pending entry of s, s is not in
\* pendingAcks, no sweep returns it and it is never counted lost.
C8_AckedNeverResent ==
  [][\A s \in SentIds :
       /\ s \in acked' => s \notin DOMAIN proto'.pendingAcks /\ s \notin lost'
       /\ s \in acked => resent'[s] = resent[s]
       /\ proto'.packetsLost = proto.packetsLost + Cardinality(lost' \ lost)]_vars

C8_Witness ==
  /\ ret.op = "getRetransmissions"
  /\ ret.value # << >>
  /\ \E s \in acked : resent[s] >= 1

\* C9: processAck(s) for an s that is not in pendingAcks changes no field of
\* the instance.
C9_AckIdempotent ==
  [][\A s \in SentIds :
       (AckStep(s) /\ s \notin Pending) => proto' = proto]_vars

\* the last call was a processAck, and no processAck ever found its entry
C9_Witness ==
  /\ ret.op = "processAck"
  /\ acked = {}
  /\ lost # {}
  /\ Pending # {}
  /\ Seen # {}

C10Step ==
  \A s \in Pending :
    LET e == proto.pendingAcks[s]
    IN /\ (Age(s) > ackTimeout /\ e.retries < maxRetries) =>
            /\ s \in DOMAIN proto'.pendingAcks
            /\ proto'.pendingAcks[s] =
                  [packet |-> e.packet, timestamp |-> now, retries |-> e.retries + 1]
            /\ \E i \in DOMAIN ret'.value :
                  /\ ret'.value[i] = e.packet
                  /\ ret'.value[i].sequenceId = s
                  /\ ret'.value[i].payload = OutPayload(s)
            /\ Times(ret'.value, s) = 1
       /\ (Age(s) > ackTimeout /\ e.retries = maxRetries) =>
            /\ s \notin DOMAIN proto'.pendingAcks
            /\ Times(ret'.value, s) = 0
       /\ Age(s) <= ackTimeout =>
            /\ s \in DOMAIN proto'.pendingAcks
            /\ proto'.pendingAcks[s] = e
            /\ Times(ret'.value, s) = 0

\* C10: one sweep resends an entry that timed out with retries left (retries
\* + 1, timestamp = now, the packet as created in the returned list), evicts
\* one that timed out with retries = maxRetries, and leaves an entry that has
\* not timed out as it is.
C10_SweepPerEntry == [][SweepStep => C10Step]_vars

C10_Witness ==
  /\ ret.op = "getRetransmissions"
  /\ Len(ret.value) = 1
  /\ \E s \in Pending : /\ proto.pendingAcks[s].timestamp = now
                         /\ proto.pendingAcks[s].retries >= 1
                         /\ ret.value[1].sequenceId = s
  /\ \E s \in Pending : /\ proto.pendingAcks[s].timestamp < now
                         /\ Age(s) <= ackTimeout

\* the entries a sweep gives up on
Exhausted ==
  {s \in Pending : Age(s) > ackTimeout /\ proto.pendingAcks[s].retries = maxRetries}

\* no call is refused (a new packet only by the bound of the model)
Operational ==
  /\ ENABLED ProcessPacket
  /\ ENABLED ProcessAck
  /\ ENABLED GetRetransmissions
  /\ proto.nextSequenceId < MaxPackets => ENABLED CreateInput /\ ENABLED CreateClientHello

C12Step ==
  /\ SweepStep =>
       /\ proto'.packetsLost = proto.packetsLost + Cardinality(Exhausted)
       /\ DOMAIN proto'.pendingAcks = Pending \ Exhausted
       /\ \A s \in Pending \ Exhausted :
             proto'.pendingAcks[s].packet = proto.pendingAcks[s].packet
       /\ proto'.nextSequenceId = proto.nextSequenceId
       /\ proto'.receivedSequences = proto.receivedSequences
  \* after a loss the other calls do what they did before
  /\ (lost # {} /\ ret'.op = "createPacket" /\ proto' # proto) =>
       /\ ret'.value.sequenceId = proto.nextSequenceId
       /\ proto'.nextSequenceId = proto.nextSequenceId + 1
       /\ ret'.value.requiresAck =>
             /\ DOMAIN proto'.pendingAcks = Pending \cup {ret'.value.sequenceId}
             /\ proto'.pendingAcks[ret'.value.sequenceId].retries = 0
       /\ proto'.packetsLost = proto.packetsLost
  /\ \A s \in SentIds :
       (lost # {} /\ AckStep(s)) =>
          /\ DOMAIN proto'.pendingAcks = Pending \ {s}
          /\ proto'.packetsLost = proto.packetsLost
  /\ \A packet \in InboundPackets :
       (lost # {} /\ PacketStep(packet) /\ packet.sequenceId \notin Seen) =>
          /\ ret'.value.payload = packet.payload
          /\ proto'.packetsLost = proto.packetsLost

\* C12: a sweep that gives up on an entry (retries = maxRetries, timed out)
\* adds exactly 1 to packetsLost for it and keeps every other pending entry;
\* afterwards createPacket, processPacket, processAck and getRetransmissions
\* are still enabled and act as before: there is no terminal or error state.
C12_LossNonFatal == [](lost # {} => Operational) /\ [][C12Step]_vars

\* one sweep gave up on packet 0 and resent packet 1
C12_Witness ==
  /\ ret.op = "getRetransmissions"
  /\ lost = {0}
  /\ proto.packetsLost = 1
  /\ IdsOf(ret.value) = {1}
  /\ Pending = {1}
  /\ proto.pendingAcks[1].timestamp = now

\* C14: processPacket of a packet whose sequenceId is not in
\* receivedSequences returns its payload, leaves the sequenceId in
\* receivedSequences, and returns an ack packet with that sequenceId if and
\* only if the packet has requiresAck = true.
C14_FirstReceipt ==
  [][\A s \in LateIds \cup FreshIds :
       (ret'.op = "processPacket" /\ s \notin Seen /\ ReceiveOf(InboundInput(s))) =>
          /\ ret'.value.payload = InPayload(s)
          /\ s \in proto'.receivedSequences
          /\ (ret'.value.kind = "payload+ack") = InboundInput(s).requiresAck
          /\ AcksIn(ret'.value) = {s}]_vars

\* the last n elements of a sequence
LastOf(list, n) == {list[i] : i \in (Len(list) - n + 1) .. Len(list)}

\* C15: when adding an id makes the seen-set larger than the cap, the ids
\* evicted are the TrimCount that were received earliest, whatever their
\* numbers; what stays is what was received last, the new id included.
C15_TrimEvictsOldest ==
  [][(ret'.op = "processPacket" /\ Len(arrival) = SeenCap
        /\ Cardinality(proto'.receivedSequences) < SeenCap) =>
       LET received == Append(arrival, ret'.value.ackPacket.sequenceId)
       IN /\ proto'.receivedSequences = LastOf(received, Len(received) - TrimCount)
          /\ ret'.value.ackPacket.sequenceId \in proto'.receivedSequences]_vars

\* the step of createInput or createClientHello
CreateStep == ret'.op = "createPacket" /\ (CreateInput \/ CreateClientHello)

C13Step ==
  /\ CreateStep =>
       LET packet == ret'.value
       IN /\ packet.sequenceId = proto.nextSequenceId
          /\ proto'.nextSequenceId = proto.nextSequenceId + 1
          /\ packet.sequenceId \notin Pending
          /\ IF packet.requiresAck
             THEN proto'.pendingAcks =
                    (packet.sequenceId :>
                       [packet |-> packet, timestamp |-> now, retries |-> 0])
                    @@ proto.pendingAcks
             ELSE proto'.pendingAcks = proto.pendingAcks
  /\ ~CreateStep => proto'.nextSequenceId = proto.nextSequenceId

\* C13: the packets one instance creates get the sequence ids 0, 1, 2, ... in
\* the order of their creation, whatever their type and whether or not they
\* require an ack (the counter starts at 0, each createPacket returns its
\* value and adds 1, nothing else changes it), so no two share an id; a
\* packet that requires an ack is stored in pendingAcks under its own id
\* with retries = 0.
C13_SequenceIds ==
  /\ [](\A s \in Pending : /\ s < proto.nextSequenceId
                            /\ proto.pendingAcks[s].packet.sequenceId = s
                            /\ proto.pendingAcks[s].packet.requiresAck)
  /\ [][C13Step]_vars

\* the second packet created needs no ack and got sequence id 1
C13_Witness ==
  /\ ret.op = "createPacket"
  /\ ret.value.sequenceId = 1
  /\ ~ret.value.requiresAck
  /\ proto.nextSequenceId = 2
  /\ Pending = {0}
  /\ proto.pendingAcks[0].retries = 0

----------------------------------------------------------------------------
(* Properties of the demonstration *)

\* the input packets the client has created (the hello has sequence id 0)
InputIds == 1 .. (clientProto.nextSequenceId - 1)
\* the step that runs the retransmission check
DemoSweepStep == swept' # swept /\ linkRet'.op = "sweep"

\* C11: several input packets were sent, nothing is in flight any more (each
\* was lost or delivered, and every ack has been processed by the client), and
\* more than ackTimeout has passed since each was sent: the sweep returns
\* exactly the input packets the network lost, each once.
C11_SweepReturnsLost ==
  [][(/\ DemoSweepStep
      /\ Cardinality(InputIds) >= 2
      /\ inFlight = {} /\ acksInFlight = {}
      /\ \A s \in DOMAIN clientProto.pendingAcks :
            now - clientProto.pendingAcks[s].timestamp > ackTimeout) =>
        /\ IdsOf(linkRet'.value) = lostInTransit \cap InputIds
        /\ Len(linkRet'.value) = Cardinality(lostInTransit \cap InputIds)
        /\ \A i \in DOMAIN linkRet'.value :
              /\ linkRet'.value[i].sequenceId \notin serverProto.receivedSequences
              /\ linkRet'.value[i].payload =
                    OutPayload(linkRet'.value[i].sequenceId)]_vars

\* one input was delivered and acknowledged, the other was lost and is what
\* the sweep returned
C11_Witness ==
  /\ linkRet.op = "sweep"
  /\ clientProto.nextSequenceId = 3
  /\ lostInTransit = {2}
  /\ IdsOf(linkRet.value) = {2}
  /\ serverProto.receivedSequences = {0, 1}
  /\ DOMAIN clientProto.pendingAcks = {2}
  /\ acksInFlight = {}

----------------------------------------------------------------------------
(* Properties of ClientPrediction *)

\* the steps of each method (out tells the methods apart and holds the
\* argument)
InputStep == out'.op = "applyInput" /\ applied' # applied
SnapshotStep == out'.op = "onServerSnapshot" /\ snaps' # snaps

\* updateState folded over inputs[1 .. n], in order, from state
RECURSIVE StepFold(_, _, _)
StepFold(state, inputs, n) ==
  IF n = 0 THEN state
  ELSE updateState(StepFold(state, inputs, n - 1), inputs[n].input)

\* the buffered inputs with a tick after T, in buffer order
InputsAfter(buffer, T) ==
  LET later == {i \in DOMAIN buffer : buffer[i].tick > T}
      first == Len(buffer) - Cardinality(later)
  IN [i \in 1 .. Cardinality(later) |-> buffer[first + i]]

\* the distance between the two positions is more than the threshold
Diverged(predicted, server) ==
  (predicted.x - server.x) * (predicted.x - server.x)
    + (predicted.y - server.y) * (predicted.y - server.y)
    > reconciliationThreshold * reconciliationThreshold

\* C2: after onServerSnapshot of a snapshot at tick T that diverges from the
\* predicted state by more than the threshold, with the buffer holding the
\* inputs of ticks T+1 .. T+k, the predicted state is updateState folded, in
\* tick order, over those k inputs from the snapshot state - whatever the
\* predicted state was.
C2_RollbackCorrect ==
  [][SnapshotStep =>
       LET snapshot == out'.arg
           later == InputsAfter(client.inputBuffer, snapshot.tick)
       IN (/\ Diverged(client.predictedState, snapshot)
           /\ \A i \in DOMAIN later : later[i].tick = snapshot.tick + i) =>
             client'.predictedState = StepFold(snapshot, later, Len(later))]_vars

C2_Witness ==
  /\ out.op = "onServerSnapshot"
  /\ out.log.branch = "rollback"
  /\ out.log.replayed = 2
  /\ Len(applied) = 3
  /\ client.predictedState.x = client.serverState.x + 2 * speed
  /\ client.predictedState.velocityX = speed

\* C3: a snapshot whose tick is less than the tick of the last snapshot applied
\* leaves predictedState, serverState and the input buffer unchanged.
C3_StaleSnapshotIgnored ==
  [][(SnapshotStep /\ snaps # << >> /\ out'.arg.tick < snaps[Len(snaps)]) =>
          /\ client'.predictedState = client.predictedState
          /\ client'.serverState = client.serverState
          /\ client'.inputBuffer = client.inputBuffer]_vars

\* C4: as long as no snapshot has been processed, the predicted state is
\* updateState folded over all the inputs applied so far, from the initial
\* state; it is so right after each applyInput.
C4_PurePrediction ==
  snaps = << >> =>
    /\ Len(applied) = client.clientTick
    /\ client.predictedState =
         StepFold(NewClient.predictedState, applied, Len(applied))

C4_Witness ==
  /\ snaps = << >>
  /\ Len(applied) = 3
  /\ client.predictedState =
       [x |-> speed, y |-> speed, velocityX |-> -speed, velocityY |-> speed]

\* C7: after onServerSnapshot of a snapshot at tick T the input buffer holds no
\* entry with tick <= T, in the blend branch and in the rollback branch.
C7_MonotonicPruning ==
  [][SnapshotStep =>
       \A i \in DOMAIN client'.inputBuffer :
          client'.inputBuffer[i].tick > out'.arg.tick]_vars

C7_Witness ==
  /\ out.op = "onServerSnapshot"
  /\ out.log.branch = "blend"
  /\ Len(snaps) = 1
  /\ client.inputBuffer # << >>
  /\ Len(client.inputBuffer) < Len(applied)

\* the ticks of a buffer are strictly increasing
Ordered(buffer) ==
  \A i, j \in DOMAIN buffer : i < j => buffer[i].tick < buffer[j].tick

C16Step ==
  InputStep =>
    /\ client'.inputBuffer =
          Append(client.inputBuffer, [tick |-> client.clientTick, input |-> out'.arg])
    /\ \A i \in DOMAIN applied : applied[i].tick < client.clientTick
    /\ \A i \in DOMAIN client.inputBuffer :
          client.inputBuffer[i].tick < client.clientTick

\* C16: in every reachable state the input buffer is ordered by tick, with
\* strictly increasing ticks (so no tick twice), and each applyInput appends
\* exactly one entry, whose tick is greater than every tick recorded before.
C16_BufferOrdered == [](Ordered(client.inputBuffer)) /\ [][C16Step]_vars

\* two inputs are buffered behind a snapshot that pruned the first
C16_Witness ==
  /\ out.op = "applyInput"
  /\ snaps # << >>
  /\ Len(client.inputBuffer) = 2
  /\ client.inputBuffer[1].tick = 1
  /\ client.inputBuffer[2].tick = 2

\* The usage example: two applyInput({moveX: 1, moveY: 0}), the snapshot of
\* frame 5 and the snapshot of frame 10
ExampleInputs ==
  << [tick |-> 0, input |-> [moveX |-> 1, moveY |-> 0]],
     [tick |-> 1, input |-> [moveX |-> 1, moveY |-> 0]] >>
\* { x: 9.5, y: 0, velocityX: 5, velocityY: 0, tick: 1 }
ExampleFrame5 ==
  [x |-> 95000, y |-> 0, velocityX |-> speed, velocityY |-> 0, tick |-> 1]
\* { x: 5, y: 0, velocityX: 0, velocityY: 0, tick: 2 }
ExampleFrame10 ==
  [x |-> 50000, y |-> 0, velocityX |-> 0, velocityY |-> 0, tick |-> 2]

\* the step that processes the snapshot of frame 5
Frame5Step ==
  /\ applied = ExampleInputs /\ snaps = << >>
  /\ SnapshotStep /\ out'.arg = ExampleFrame5
\* the step that processes the snapshot of frame 10
Frame10Step ==
  /\ applied = ExampleInputs /\ snaps = <<1>>
  /\ out.op = "onServerSnapshot" /\ out.arg = ExampleFrame5
  /\ SnapshotStep /\ out'.arg = ExampleFrame10

\* C17: in the usage example the snapshot with x = 9.5 meets the predicted
\* x = 10, has divergence 0.5, is blended (not rolled back) with a blend factor
\* of 5%, and leaves predicted x = 9.975.
C17_ExampleBlend ==
  [][Frame5Step =>
       /\ client.predictedState.x = 100000
       /\ out'.log.divergence = 5000
       /\ out'.log.branch = "blend"
       /\ client'.predictedState.x = 99750]_vars

BlendedToward(p, q, s, d) ==
  /\ (q - p) * reconciliationThreshold * maxBlendInverse
        = (s - p) * Min(d, reconciliationThreshold)
  /\ Abs(q - p) * maxBlendInverse <= Abs(s - p)
  /\ (s - q) * (s - p) >= 0
  /\ Abs(s - q) <= Abs(s - p)
  /\ s # p => q # s

C19Step ==
  (SnapshotStep /\ out'.log.branch = "blend") =>
    LET before == client.predictedState
        after == client'.predictedState
        server == out'.arg
        divergence == out'.log.divergence
    IN /\ divergence = calculateDivergence(before, server)
       /\ divergence <= reconciliationThreshold
       /\ BlendedToward(before.x, after.x, server.x, divergence)
       /\ BlendedToward(before.y, after.y, server.y, divergence)
       /\ calculateDivergence(after, server) <= divergence
       /\ divergence > 0 =>
             /\ calculateDivergence(after, server) > 0
             /\ calculateDivergence(after, server) < divergence
       /\ divergence = 0 => after = before
       /\ after.velocityX = before.velocityX /\ after.velocityY = before.velocityY

\* C19: in the blend branch the predicted position moves toward the server
\* position by min(divergence / threshold, 1) * 0.1 of the distance, which is
\* at most a tenth of it: it neither reaches nor passes the server position
\* when the divergence is positive, the divergence afterwards is not larger
\* than before, and with zero divergence the position does not change.
C19_BlendNeverSnaps == [][C19Step]_vars

\* a snapshot exactly at the threshold was blended by a tenth
C19_Witness ==
  /\ out.op = "onServerSnapshot"
  /\ out.log.branch = "blend"
  /\ out.log.divergence = reconciliationThreshold
  /\ client.serverState.x - client.predictedState.x = 540
  /\ client.serverState.y - client.predictedState.y = 720
  /\ applied # << >>

\* C21: serverState is a copy of the last snapshot and changes only when a
\* snapshot is received.  No two references share an object; applyInput
\* leaves serverState and the caller's snapshot object as they were, also
\* right after a rollback; and a snapshot call leaves the caller's object as
\* it was passed.
C21Step ==
  /\ out'.op = "applyInput" =>
        /\ client'.serverState = client.serverState
        /\ callerSnapshot' = callerSnapshot
  /\ out'.op = "onServerSnapshot" =>
        /\ client'.serverState = out'.arg
        /\ callerSnapshot' = <<out'.arg>>

C21_ServerStateIsCopy == [](sharing = {}) /\ [][C21Step]_vars

\* an input applied right after a rollback to the snapshot that is stored
C21_Witness ==
  /\ out.op = "applyInput"
  /\ callerSnapshot = <<client.serverState>>
  /\ Len(client.inputBuffer) = 1
  /\ "tick" \in DOMAIN client.predictedState
  /\ client.predictedState.tick = client.serverState.tick
  /\ client.predictedState.x = client.serverState.x + out.arg.moveX * speed
  /\ client.predictedState.y = client.serverState.y + out.arg.moveY * speed
  /\ client.predictedState # [client.serverState EXCEPT !.x = client.predictedState.x, !.y = client.predictedState.y]

\* C30: onServerSnapshot rolls back and replays if and only if the Euclidean
\* distance between the predicted position and the snapshot's is strictly
\* greater than reconciliationThreshold; at exactly the threshold and below
\* it blends, and the predicted state is not reset to the snapshot.
C30Step ==
  SnapshotStep =>
    LET before == client.predictedState
        after == client'.predictedState
        server == out'.arg
        dx == before.x - server.x
        dy == before.y - server.y
        far == dx * dx + dy * dy > reconciliationThreshold * reconciliationThreshold
    IN /\ out'.log.branch = IF far THEN "rollback" ELSE "blend"
       /\ far => after = replay(server, unacknowledgedInputs(client.inputBuffer,
                                                            server.tick))
       /\ ~far =>
            /\ after.velocityX = before.velocityX
            /\ after.velocityY = before.velocityY
            /\ DOMAIN after = DOMAIN before
            /\ <<dx, dy>> # <<0, 0>> => <<after.x, after.y>> # <<server.x, server.y>>

C30_BranchSelection == [][C30Step]_vars

\* a snapshot exactly at the threshold, with another velocity than the
\* predicted one, was blended and left an unacknowledged input in the buffer
C30_Witness ==
  /\ out.op = "onServerSnapshot"
  /\ out.log.branch = "blend"
  /\ out.log.divergence = reconciliationThreshold
  /\ client.inputBuffer # << >>
  /\ client.predictedState.velocityX # client.serverState.velocityX
  /\ client.predictedState.x # client.serverState.x

----------------------------------------------------------------------------
(* Properties of reconciliation *)

\* no call of the client is refused: every input is applied and buffered, and
\* every snapshot is taken as the server state
ClientOperational ==
  /\ \A input \in Inputs :
       LET next == applyInput(client, input)
       IN /\ next.clientTick = client.clientTick + 1
          /\ Len(next.inputBuffer) = Len(client.inputBuffer) + 1
  /\ \A snapshot \in Snapshots :
       onServerSnapshot(client, snapshot).self.serverState = snapshot

\* a rollback has run to its end: it replayed what the buffer held after the
\* snapshot's tick, and the client is back to predicting
RolledBack ==
  /\ out.log.replayed <= Len(applied)
  /\ out.log.replayed = Len(client.inputBuffer)
  /\ client.predictedState.tick = out.arg.tick
  /\ ClientOperational

\* C20: a reconciliation that is entered ends.  In ClientPrediction a rollback
\* replays finitely many buffered inputs within the call and leaves the client
\* able to take inputs and snapshots again, and no state of the client refuses
\* them; in the visualizer a correcting flag that is set is cleared later.
C20_ReconciliationEnds ==
  /\ [](program = "ClientPrediction" =>
         /\ ClientOperational
         /\ (out.op = "onServerSnapshot" /\ out.log.branch = "rollback")
               => RolledBack)
  /\ (viz.correcting ~> ~viz.correcting)

\* the visualizer flagged a misprediction after a snapshot came back
C20_Witness ==
  /\ program = "NetcodeVisualizer"
  /\ viz.correcting
  /\ timeouts = 1
  /\ viz.snapshots # << >>
  /\ viz.mispredictAt >= 0
  /\ viz.clientPredPos > viz.clientAuthPos + WrongPrediction

----------------------------------------------------------------------------
(* Properties of TimeSync *)

\* the step is a call of `op`: every call returns something new
SyncCall(op) == syncRet' # syncRet /\ syncRet'.op = op

\* the response to `request` of a responder whose clock reads t
Echoes(response, request, t) ==
  /\ response.type = "time_sync_res"
  /\ response.clientSendTime = request.clientSendTime
  /\ response.sequenceId = request.sequenceId
  /\ response.serverReceiveTime = t
  /\ response.serverSendTime = t
  /\ response.serverTick = TickAt(syncNow)

\* C22: handleSyncRequest returns a response that echoes the request's
\* clientSendTime and sequenceId with the responder's receive and send
\* timestamps and the given tick, and changes no field of the responder.
C22Step ==
  /\ SyncCall("handleSyncRequest") =>
        /\ peer' = peer
        /\ Echoes(syncRet'.value, syncRet'.arg, peerNow)
  /\ SyncCall("answerSyncRequest") =>
        /\ sync' = sync
        /\ Echoes(syncRet'.value, syncRet'.arg, syncNow)

C22_HandleReadOnly == [][C22Step]_vars

\* a responder whose clock differs from the requester's has answered a
\* request that took time to arrive
C22_Witness ==
  /\ syncRet.op = "handleSyncRequest"
  /\ trueOffset # 0
  /\ syncRet.value.serverSendTime > syncRet.arg.clientSendTime - trueOffset
  /\ syncRet.value.serverTick > 0
  /\ peer = NewTimeSync(0 - trueOffset)

\* the blend of a later sample: half of delta when |delta| > 50 ms, else a tenth
Blended(offset, raw) ==
  LET delta == raw - offset
  IN IF Abs(delta) > offsetThreshold * Unit THEN offset + delta \div 2
     ELSE offset + delta \div 10

\* C23: processSyncResponse takes the raw offset outright only for the first
\* processed sample, and blends every later sample into clockOffset, also
\* when clockOffset is 0 at that moment.
C23Step ==
  SyncCall("processSyncResponse") =>
    IF sync.rttHistory = << >>
    THEN sync'.clockOffset = syncRet'.log.newOffset
    ELSE sync'.clockOffset = Blended(sync.clockOffset, syncRet'.log.newOffset)

C23_OffsetUpdateRule == [][C23Step]_vars

\* sync responses processed so far (at most rttSamples of them are kept)
SamplesCollected == Len(sync.rttHistory)

\* C24: isSyncReliable() is true only when the quality score is above 0.5
\* and at least 4 sync responses have been processed; it is false while none
\* has been processed, however many requests were created.
C24_ReliableNeedsSamples ==
  isSyncReliable(sync) =>
    /\ calculateQuality(sync) > 5000
    /\ SamplesCollected >= 4

\* the drift fields after a response was processed at syncNow: recomputed
\* from the raw offset if `due`, else as they were
DriftGated(due) ==
  LET elapsed == syncNow - sync.lastDriftCheckTime
      raw == syncRet'.log.newOffset
  IN IF due
     THEN /\ sync'.clockDrift = ((raw - sync.lastDriftOffset) * 1000) \div elapsed
          /\ sync'.lastDriftCheckTime = syncNow
          /\ sync'.lastDriftOffset = raw
     ELSE /\ sync'.clockDrift = sync.clockDrift
          /\ sync'.lastDriftCheckTime = sync.lastDriftCheckTime
          /\ sync'.lastDriftOffset = sync.lastDriftOffset

\* C25 as stated: processSyncResponse recomputes clockDrift exactly when at
\* least 10 s have elapsed since the last drift computation (or construction),
\* also when exactly 10 s have elapsed; otherwise the drift fields are unchanged.
C25Step ==
  SyncCall("processSyncResponse") =>
    DriftGated(syncNow - sync.lastDriftCheckTime >= driftInterval)

C25_DriftGate == [][C25Step]_vars

\* C25, amended: processSyncResponse recomputes clockDrift exactly when more
\* than 10 s have elapsed since the last drift computation (or construction);
\* when exactly 10 s or less have elapsed the drift fields are unchanged.
C25StepStrict ==
  SyncCall("processSyncResponse") =>
    DriftGated(syncNow - sync.lastDriftCheckTime > driftInterval)

C25_DriftGateStrict == [][C25StepStrict]_vars

\* a response was processed exactly 10 s after construction, at a non-zero
\* raw offset, and the drift fields are as constructed
C25_Witness ==
  /\ syncRet.op = "processSyncResponse"
  /\ sync.lastSyncTime = syncNow
  /\ syncNow - sync.lastDriftCheckTime = driftInterval
  /\ syncRet.log.newOffset # 0
  /\ sync.clockDrift = 0

\* The raw offset of an exchange is the true offset plus half the difference
\* of its two one-way delays, and no delay exceeds LongestOneWay.
OffsetNoise == (LongestOneWay * Unit) \div 2

\* C26: with a constant true offset and delays bounded by LongestOneWay,
\* clockOffset lies within OffsetNoise of the true offset once the first
\* response has been processed, and stays there for all later samples.
C26_OffsetConverges ==
  SamplesCollected >= 1 =>
    Abs(sync.clockOffset - trueOffset * Unit) <= OffsetNoise

\* three samples of differing raw offsets were blended about a non-zero
\* true offset
C26_Witness ==
  /\ trueOffset # 0
  /\ SamplesCollected >= 3
  /\ Cardinality(rawOffsets) >= 2
  /\ sync.clockOffset \notin rawOffsets
  /\ sync.clockOffset # trueOffset * Unit

\* C27: drift is the rate of change of the offset.  While every processed
\* response has given the same raw offset, the true one, clockDrift is 0
\* after every processSyncResponse, the first drift computation included, and
\* getServerTime() is the local time minus that offset.
C27_NoDriftAtConstantOffset ==
  (SamplesCollected >= 1 /\ rawOffsets = {trueOffset * Unit}) =>
    /\ sync.clockDrift = 0
    /\ getServerTime(sync, syncNow) = (syncNow - trueOffset) * Unit

\* C28: the k-th request an instance creates carries sequence id k - 1 and
\* the local time of its creation.  The count of requests starts at 0, a
\* request takes the count as its id and advances it by one, and no other
\* call (processSyncResponse, handleSyncRequest) changes the count.
C28Step ==
  IF SyncCall("createSyncRequest")
  THEN /\ syncRet'.value.type = "time_sync_req"
       /\ syncRet'.value.sequenceId = sync.syncCount
       /\ syncRet'.value.clientSendTime = syncNow
       /\ sync'.syncCount = sync.syncCount + 1
  ELSE sync'.syncCount = sync.syncCount

C28_SequenceIdsIncrease ==
  /\ [](syncRet.op = "new" => sync.syncCount = 0)
  /\ [][C28Step]_vars

\* the third request was created after a response had been processed
C28_Witness ==
  /\ syncRet.op = "createSyncRequest"
  /\ syncRet.value.sequenceId = 2
  /\ syncRet.value.clientSendTime = syncNow
  /\ syncNow > 0
  /\ SamplesCollected >= 1

----------------------------------------------------------------------------
(* Properties of the visualizer's server *)

\* C29: the server never applies an input with a lower sequence number
\* after one with a higher number, also when the latency changes between
\* sends.  A snapshot carries the sequence number of the input it applied
\* (seq: latest.seq), so among the snapshots on their way to the client, in
\* the order the server made them, no sequence number is below an earlier one.
C29_InputsAppliedInOrder ==
  \A i, j \in DOMAIN viz.snapshots :
    i < j => viz.snapshots[i].seq <= viz.snapshots[j].seq

----------------------------------------------------------------------------
(* Properties of the pending table *)

\* the entries of the other packets that a step may not touch
Untouched(others) ==
  \A b \in others :
    /\ b \in DOMAIN proto'.pendingAcks
    /\ proto'.pendingAcks[b] = proto.pendingAcks[b]

C31Step ==
  /\ SweepStep =>
       \A a \in Pending :
         Age(a) > ackTimeout =>
           Untouched({b \in Pending \ {a} : Age(b) <= ackTimeout})
  /\ \A a \in SentIds : AckStep(a) => Untouched(Pending \ {a})

\* C31: a sweep that resends or evicts a packet A leaves the timestamp and
\* the retries of every other pending packet B whose age does not exceed
\* ackTimeout as they were, and processAck(A) leaves the entry of every
\* other packet as it was.
C31_IndependentTimeouts == [][C31Step]_vars

C31_Witness ==
  /\ ret.op = "getRetransmissions"
  /\ \E a \in IdsOf(ret.value) :
       \E b \in Pending \ {a} :
         /\ proto.pendingAcks[b].timestamp < now
         /\ proto.pendingAcks[b].retries = 0
         /\ b \notin IdsOf(ret.value)

\* packets that are tracked, were acknowledged, or were given up
Accounted(self, removedByAck) ==
  Cardinality(DOMAIN self.pendingAcks) + Cardinality(removedByAck)
    + self.packetsLost

C33Step ==
  /\ Accounted(proto', acked') =
       Accounted(proto, acked)
         + (IF CreateStep /\ ret'.value.requiresAck THEN 1 ELSE 0)
  /\ proto'.packetsLost >= proto.packetsLost

\* C33: every packet created with requiresAck is in exactly one place: the
\* number of such packets equals the size of pendingAcks plus the entries
\* processAck removed plus packetsLost (each createPacket with requiresAck
\* adds one to that sum and no other step changes it); every pending entry
\* has a sequence id below nextSequenceId and 0 <= retries <= maxRetries;
\* packetsLost never decreases and never exceeds nextSequenceId.
C33_PacketAccounting ==
  /\ [](/\ \A s \in Pending : /\ s < proto.nextSequenceId
                                /\ proto.pendingAcks[s].retries \in 0 .. maxRetries
        /\ proto.packetsLost <= proto.nextSequenceId
        /\ Accounted(proto, acked) <= proto.nextSequenceId
        /\ Pending \cap acked = {}
        /\ Pending \cap lost = {}
        /\ acked \cap lost = {}
        /\ Cardinality(lost) = proto.packetsLost)
  /\ [][C33Step]_vars

\* of two packets that required an ack, one was acknowledged after a resend
\* and the other was given up
C33_Witness ==
  /\ proto.nextSequenceId = 2
  /\ Cardinality(acked) = 1
  /\ proto.packetsLost = 1
  /\ Pending = {}
  /\ \E s \in acked : resent[s] >= 1

\* the packet with sequence id s is accepted by this step
AcceptStep(s) ==
  ret'.op = "processPacket" /\ s \notin Seen /\ ReceiveOf(InboundInput(s))

\* C34: immediately after processPacket has accepted a packet with sequence
\* id s, a second processPacket of the same packet is dropped as a duplicate
\* (it returns null), in every order of arrival, also when accepting s
\* triggers the trim of the seen-set.
C34_SecondReceiptDropped ==
  [][\A s \in LateIds \cup FreshIds :
       AcceptStep(s) =>
         processPacket(proto', InboundInput(s), now').value.kind = "null"]_vars

\* some processPacket call of this step
ReceiptStep == ret'.op = "processPacket" /\ ret' # ret /\ NextLongRunning

C35Step ==
  LET before == Cardinality(Seen)
      after == Cardinality(proto'.receivedSequences)
  IN /\ after <= SeenCap
     /\ IF before = SeenCap
        THEN /\ after = before + 1 - TrimCount
             /\ after = SeenCap - (TrimCount - 1)
        ELSE after = before + 1

\* C35: after every processPacket call the seen-set holds at most SeenCap
\* ids; a call that accepts a packet when the set is full trims it by
\* exactly TrimCount ids, which leaves SeenCap - (TrimCount - 1) ids, and a
\* call that accepts a packet below the cap removes none.
C35_SeenSetBounded ==
  /\ [](Cardinality(Seen) <= SeenCap)
  /\ [][ReceiptStep => C35Step]_vars

\* the set was filled to the cap, and the next packet accepted trimmed it
C35_Witness ==
  /\ ret.op = "processPacket"
  /\ Cardinality(Seen) = SeenCap - (TrimCount - 1)
  /\ Len(arrival) = SeenCap - (TrimCount - 1)

\* the packets this step's sweep returns
Returned == IF SweepStep THEN IdsOf(ret'.value) ELSE {}

C36Step ==
  \A s \in Pending :
    LET e == proto.pendingAcks[s]
    IN \* the entry's timestamp is the time of creation or of the last return
       /\ e.retries = 0 => e.timestamp = e.packet.timestamp
       /\ (s \in DOMAIN proto'.pendingAcks /\ s \notin Returned) =>
            proto'.pendingAcks[s].timestamp = e.timestamp
       /\ s \in Returned =>
            /\ now - e.timestamp > ackTimeout
            /\ proto'.pendingAcks[s].timestamp = now
            /\ resent'[s] = resent[s] + 1
            /\ resent'[s] = proto'.pendingAcks[s].retries
       /\ s \in lost' =>
            /\ resent[s] = maxRetries
            /\ now - e.packet.timestamp >= (maxRetries + 1) * ackTimeout
            /\ now - e.packet.timestamp > (maxRetries + 1) * ackTimeout

\* C36: two consecutive returns of one packet by getRetransmissions are
\* more than ackTimeout apart (a return needs now - timestamp > ackTimeout
\* and sets timestamp = now, and nothing else changes the timestamp); a
\* packet is transmitted at most 1 + maxRetries times; and it is counted
\* lost no sooner than (maxRetries + 1) * ackTimeout after its creation.
C36_RetransmissionTiming ==
  /\ [](\A s \in SentIds : 1 + resent[s] <= 1 + maxRetries)
  /\ [][C36Step]_vars

\* a packet was given up at the earliest time the timers allow
C36_Witness ==
  /\ ret.op = "getRetransmissions"
  /\ ret.value = << >>
  /\ now = (maxRetries + 1) * (ackTimeout + 1)
  /\ \E s \in lost : resent[s] = maxRetries /\ s \notin Pending

----------------------------------------------------------------------------
(* Properties of the run with lost acknowledgments *)

\* the receiver was handed packet s, accepted it, and was later handed a
\* retransmission of it
RetransmissionDelivered(s) ==
  /\ s \in serverProto.receivedSequences
  /\ \E first, again \in delivered :
       /\ first.sequenceId = s
       /\ again.sequenceId = s
       /\ first.attempt < again.attempt

\* nothing the receiver sent back about packet s is still on its way
Answered(s) == \A a \in acksInFlight : a.sequenceId # s

\* the sweeps of the sender
LinkSweepStep == linkRet'.op = "sweep" /\ SweepAgain

\* C32: a packet that requires an ack, that the receiver accepted and whose
\* ack was lost is recovered by retransmission: once a retransmission of it
\* has been delivered to the receiver and the receiver's response has come
\* back, no sweep of the sender gives up on the packet and counts it in
\* packetsLost.
C32_AckLossRecovered ==
  [][LinkSweepStep =>
       \A s \in DOMAIN clientProto.pendingAcks :
         (RetransmissionDelivered(s) /\ Answered(s)) =>
           /\ s \in DOMAIN clientProto'.pendingAcks
           /\ clientProto'.packetsLost = clientProto.packetsLost]_vars

----------------------------------------------------------------------------
(* Properties of the input buffer *)

\* the highest snapshot tick processed so far (below every tick if none)
HighestSnapshotTick ==
  IF snaps = << >> THEN -1
  ELSE CHOOSE t \in {snaps[i] : i \in DOMAIN snaps} :
         \A i \in DOMAIN snaps : snaps[i] <= t

\* the applied inputs a snapshot has not reached, as they were applied
Unacknowledged(inputs, tick) ==
  SelectSeq(inputs, LAMBDA e : e.tick > tick)

BufferExact == client.inputBuffer = Unacknowledged(applied, HighestSnapshotTick)

\* C37: after any sequence of applyInput and onServerSnapshot calls, with
\* the snapshots in any order of their ticks, the input buffer contains
\* exactly the applied inputs whose tick is greater than the highest
\* snapshot tick processed so far (all of them if there was no snapshot),
\* each once, unaltered and in the order applied.
C37_BufferExact == [](BufferExact)

C37Step ==
  /\ (SnapshotStep /\ BufferExact) => BufferExact'
  /\ (InputStep /\ BufferExact /\ HighestSnapshotTick < client.clientTick) =>
       BufferExact'
  /\ (InputStep /\ HighestSnapshotTick >= client.clientTick) =>
       /\ ~BufferExact'
       /\ client'.inputBuffer[Len(client'.inputBuffer)].tick <= HighestSnapshotTick

\* C37 where it holds: the buffer is exact after construction, every
\* onServerSnapshot keeps it exact, and applyInput keeps it exact when
\* clientTick is greater than the highest snapshot tick processed so far;
\* an input applied at a tick that a snapshot already carried is buffered
\* all the same.
C37_BufferExactBehindSnapshots ==
  /\ [](client.clientTick = 0 /\ snaps = << >> => BufferExact)
  /\ [][C37Step]_vars

\* snapshots for ticks 1 and 0 arrived in this order after two inputs; the
\* third input is the only one buffered
C37_Witness ==
  /\ out.op = "applyInput"
  /\ snaps = <<1, 0>>
  /\ Len(applied) = 3
  /\ client.inputBuffer = <<applied[3]>>
  /\ BufferExact

----------------------------------------------------------------------------
(* Properties of TimeSync on a network that reorders and duplicates *)

\* C38: across processSyncResponse calls with responses out of order or
\* duplicated, the requester's serverTick never decreases: a response older
\* than one already processed does not overwrite the tick recorded from the
\* newer one.
C38_ServerTickMonotonic ==
  [][sync'.serverTick >= sync.serverTick]_vars

----------------------------------------------------------------------------
(* Properties of the estimated server tick *)

\* no response is processed by this step
NoSync ==
  /\ sync'.serverTick = sync.serverTick
  /\ sync'.lastSyncTime = sync.lastSyncTime
  /\ sync'.clockOffset = sync.clockOffset
  /\ sync'.clockDrift = sync.clockDrift

\* whole tick durations in ms milliseconds
WholeTicks(ms) == (ms * syncTickRate) \div 1000

C39Step ==
  /\ SyncCall("processSyncResponse") =>
       getServerTick(sync', syncNow') = syncRet'.arg.serverTick
  /\ (NoSync /\ syncNow' > syncNow) =>
       getServerTick(sync', syncNow') >= getServerTick(sync, syncNow)
  /\ (NoSync /\ sync.clockDrift = 0) =>
       getServerTick(sync', syncNow') =
         sync.serverTick + WholeTicks(syncNow' - sync.lastSyncTime)

\* C39: getServerTick() at the local time at which processSyncResponse
\* recorded a response returns exactly response.serverTick; as local time
\* advances without another sync the tick it returns never decreases, and
\* while clockDrift is 0 it is serverTick plus the number of whole tick
\* durations elapsed since the sync.
C39_ServerTickEstimate == [][C39Step]_vars
============================================================================
